---- MODULE Spec2Model ----
(***************************************************************************)
(* A model of the incremental indexer of the code-RAG system               *)
(* (src/src/indexing/incremental_indexer.py): the git repository it reads,  *)
(* the vector store it writes (collections code_semantic and code_symbols), *)
(* the state file .rag_index_state.json, and IncrementalIndexer.index()     *)
(* run as an asyncio task.                                                  *)
(*                                                                          *)
(* A working tree is a function from paths to file contents; content 0 is   *)
(* "no such file".  Tracked files are clean (the working tree holds what    *)
(* HEAD holds); files outside HEAD are untracked.  A commit is identified   *)
(* with the tree it records, which is all git diff reads of it.  The        *)
(* last_updated timestamp of the state and the vectors of the points are    *)
(* left out.                                                                *)
(***************************************************************************)
EXTENDS Integers, Sequences, FiniteSets, TLC

\* ---------------------------------------------------------------- bounds

\* File contents are 1..MaxContent.
MaxContent == 2
\* index() is called at most MaxPasses times in a behaviour.
MaxPasses == 3
\* The repository is edited at most MaxEdits times in a behaviour.
MaxEdits == 2
\* The clock stops at MaxTime.
MaxTime == 6
\* File system events reported to the watcher.
MaxEvents == 3
\* Search results in one call.
MaxHits == 3
MaxFiltered == 2
MaxBody == 5
MaxMethods == 2
MaxItems == 2
MaxTexts == 4
MaxQuery == 3
MaxTasks == 3
MaxRetries == 4
MaxRuns == 5
MaxGates == 3

\* ----------------------------------------------------------- repository

\* The paths of the repository, in the order git lists them.
PathSeq == <<"a.py", "b.py", "n.txt">>

Paths == {PathSeq[k] : k \in 1..Len(PathSeq)}

\* SUPPORTED_EXTENSIONS, as `any(path.endswith(ext) for ext in extensions)`
\* decides it for the paths of the model.
Supported(path) == path \in {"a.py", "b.py"}

\* Content of a path that does not exist.
NoFile == 0

Contents == 1..MaxContent

Trees == [Paths -> {NoFile} \cup Contents]

EmptyTree == [p \in Paths |-> NoFile]

\* The paths of S in git's listing order.
InOrder(S) == SelectSeq(PathSeq, LAMBDA p : p \in S)

\* ----------------------------------------------------------- dictionaries

EmptyDict == [p \in {} |-> 0]

Put(d, k, v) == [x \in (DOMAIN d) \cup {k} |-> IF x = k THEN v ELSE d[x]]

Pop(d, k) == [x \in (DOMAIN d) \ {k} |-> d[x]]

\* dict.get(k), with None modelled as -1
Get(d, k) == IF k \in DOMAIN d THEN d[k] ELSE -1

\* dict.pop(k, default) returns this
GetOr(d, k, default) == IF k \in DOMAIN d THEN d[k] ELSE default

VARIABLES
    head,        \* the tree of HEAD
    work,        \* the working tree
    stateFile,   \* .rag_index_state.json
    semantic,    \* the points of collection code_semantic
    symbols,     \* the points of collection code_symbols
    procs,       \* the index() tasks: position and locals of each
    cpu,         \* the task that holds the event loop (0: none)
    edited,      \* the repository was edited since the last index() began
    prevFailed,  \* the paths in the errors of the last completed pass
    nPasses,     \* index() calls so far
    nEdits,      \* repository edits so far
    watcher,     \* the FileWatcher, its debounce task and the clock
    call         \* one call of the search / context functions: input, output

vars == <<head, work, stateFile, semantic, symbols, procs, cpu, edited,
          prevFailed, nPasses, nEdits, watcher, call>>

\* ------------------------------------------------------------- hashing

\* hashlib.sha256(content).hexdigest(): one value per content, none of them
\* the empty string.
Sha256(content) == 100 + content

\* The empty string, as a hash value.
EmptyString == 0

\* GitChangeDetector.compute_file_hash
compute_file_hash(path) ==
    IF work[path] = NoFile THEN EmptyString ELSE Sha256(work[path])

\* ------------------------------------------------------------- chunking

\* ASTChunker.chunk_file on the file contents of the model: every file
\* yields its File chunk; every content defines function f with the same
\* text; contents from 2 on also define a function g whose text is theirs.
chunk_file(content) ==
    <<[chunk_type |-> "file", symbol_name |-> "", content |-> content],
      [chunk_type |-> "function", symbol_name |-> "f", content |-> 1]>>
    \o (IF content >= 2
        THEN <<[chunk_type |-> "function", symbol_name |-> "g",
                content |-> content]>>
        ELSE <<>>)

\* compute_id as it would be did the hash cover the list of calls.
ComputeIdWithCalls(chunk, path) ==
    <<chunk.chunk_type, path, chunk.symbol_name, chunk.content, chunk.calls>>

\* CodeChunk.compute_id: the chunk type and a hash of
\* file_path:symbol_name:content.
compute_id(chunk, path) ==
    <<chunk.chunk_type, path, chunk.symbol_name, chunk.content>>

\* ---------------------------------------------------------------- store

\* The PointStruct _index_file builds for a chunk of the file at `path`.
PointOf(chunk, path) ==
    [id |-> compute_id(chunk, path), file_path |-> path,
     chunk_type |-> chunk.chunk_type]

PointsOf(chunks, path) == {PointOf(chunks[k], path) : k \in 1..Len(chunks)}

\* symbol_points of _index_file
SymbolPoints(points) ==
    {x \in points : x.chunk_type \in {"function", "class", "method"}}

\* client.upsert: a point replaces the stored point of the same id.
Upsert(collection, points) ==
    {x \in collection : \A y \in points : y.id # x.id} \cup points

\* The points a file_path filter matches.
Matching(collection, path) == {x \in collection : x.file_path = path}

\* client.delete with a file_path filter
DeleteByPath(collection, path) == collection \ Matching(collection, path)

\* The payload patch of _rename_file_chunks.
Repathed(points, new_path) ==
    {[x EXCEPT !.file_path = new_path] : x \in points}

\* ----------------------------------------------------------- state file

\* IndexState (without last_updated); kind tells a loaded state from None.
IndexState(commit, files, chunks, nfiles) ==
    [kind |-> "valid", git_commit |-> commit, indexed_files |-> files,
     total_chunks |-> chunks, total_files |-> nfiles]

NoState == [IndexState(EmptyTree, EmptyDict, 0, 0) EXCEPT !.kind = "none"]

\* The state file when it does not exist.
MissingFile == [IndexState(EmptyTree, EmptyDict, 0, 0) EXCEPT !.kind = "missing"]

\* The state file after write_text opened (truncated) it and before it
\* wrote all of the JSON text.
PartialFile == [IndexState(EmptyTree, EmptyDict, 0, 0) EXCEPT !.kind = "partial"]

\* _load_state as it would be did it take whatever text the file holds
\* for a state: a partly written file yields a baseline.
LoadStateGuesses(file) ==
    IF file.kind \in {"valid", "partial"}
    THEN [file EXCEPT !.kind = "valid"]
    ELSE NoState

\* IncrementalIndexer._load_state: None when the file is missing or
\* json.loads / from_dict raises.
load_state(file) == IF file.kind = "valid" THEN file ELSE NoState

\* ------------------------------------------------------------------ git

\* FileChange; old_path is "" where the code leaves it None.
FileChange(path, change_type, old_path) ==
    [path |-> path, change_type |-> change_type, old_path |-> old_path]

\* Paths git diff finds in `base` and not in HEAD, and in HEAD and not in
\* `base`.
DeletedIn(base) == {p \in Paths : base[p] # NoFile /\ head[p] = NoFile}

AddedIn(base) == {p \in Paths : base[p] = NoFile /\ head[p] # NoFile}

\* The rename pairings git diff may report between `base` and HEAD, each a
\* function from new paths to old paths.  A deleted and an added file of
\* equal content are always paired (an exact rename); whether two of
\* different content are similar enough to be paired is up to git.
RenameMaps(base) ==
    {m \in UNION {[S -> DeletedIn(base)] : S \in SUBSET AddedIn(base)} :
        /\ \A q1, q2 \in DOMAIN m : m[q1] = m[q2] => q1 = q2
        /\ \A p \in DeletedIn(base) : \A q \in AddedIn(base) :
              base[p] = head[q] =>
                \/ q \in DOMAIN m /\ base[m[q]] = head[q]
                \/ \E q2 \in DOMAIN m : m[q2] = p /\ base[p] = head[q2]}

\* The line of `git diff --name-status base HEAD` for `path`, if any, as
\* get_changes_since parses it.
DiffLine(base, m, path) ==
    IF path \in DOMAIN m
    THEN <<FileChange(path, "R", m[path])>>
    ELSE IF base[path] = NoFile /\ head[path] # NoFile
    THEN <<FileChange(path, "A", "")>>
    ELSE IF base[path] # NoFile /\ head[path] = NoFile
    THEN IF \E q \in DOMAIN m : m[q] = path
         THEN <<>>
         ELSE <<FileChange(path, "D", "")>>
    ELSE IF base[path] # head[path]
    THEN <<FileChange(path, "M", "")>>
    ELSE <<>>

RECURSIVE DiffFrom(_, _, _)
DiffFrom(base, m, k) ==
    IF k > Len(PathSeq)
    THEN <<>>
    ELSE DiffLine(base, m, PathSeq[k]) \o DiffFrom(base, m, k + 1)

\* GitChangeDetector._get_untracked_files
get_untracked_files ==
    InOrder({p \in Paths : head[p] = NoFile /\ work[p] # NoFile})

RECURSIVE AsAdded(_)
AsAdded(paths) ==
    IF paths = <<>>
    THEN <<>>
    ELSE <<FileChange(Head(paths), "A", "")>> \o AsAdded(Tail(paths))

\* GitChangeDetector.get_changes_since: the diff of the commit against
\* HEAD, then every untracked file as ADDED.
get_changes_since(commit, m) ==
    DiffFrom(commit, m, 1) \o AsAdded(get_untracked_files)

\* GitChangeDetector.get_all_tracked_files with the extension filter
get_all_tracked_files ==
    InOrder({p \in Paths : head[p] # NoFile /\ Supported(p)})

\* ---------------------------------------------------------- index() tasks

Procs == {1, 2}

ZeroStats ==
    [files_added |-> 0, files_modified |-> 0, files_deleted |-> 0,
     chunks_added |-> 0, chunks_deleted |-> 0, files_indexed |-> 0,
     chunks_created |-> 0, errors |-> <<>>]

NoChange == FileChange("", "", "")

\* What is known of the change a task handled last: the change, whether it
\* raised, and the points code_semantic held for its path before it.
Last(change, failed, old_points) ==
    [change |-> change, failed |-> failed, old_points |-> old_points]

\* A task that has not run.  pc is the task's position: "loop" at the top
\* of the loop over the changes (or files), "embed" suspended in
\* _batch_embed, "save" in front of _save_state, "done" returned.
\* full tells _full_index from _incremental_update; state, todo (the
\* changes or files not handled yet), new_indexed_files, stats and pending
\* (the chunks being embedded) are the locals.  The other fields record
\* the pass for the properties: the state file as the pass found it, the
\* paths it called the embedder for, the paths it worked on, the paths
\* that failed in the pass before it with no edit since, the last change
\* handled, the number of calls that raised, and whether a store call
\* returned, a store call raised, a store write was done; full_reindex is
\* the argument of the call and loaded tells that _load_state was called.
IdleProc ==
    [pc |-> "idle", full |-> FALSE, full_reindex |-> FALSE,
     loaded |-> FALSE, state |-> NoState, todo |-> <<>>,
     new_indexed_files |-> EmptyDict, stats |-> ZeroStats, pending |-> <<>>,
     old_points |-> {}, fileBefore |-> MissingFile, embedded |-> {},
     attempted |-> {}, mustRetry |-> {}, last |-> Last(NoChange, FALSE, {}),
     raises |-> 0, store_ok |-> FALSE, store_failed |-> FALSE,
     wrote |-> FALSE]

Running(i) == procs[i].pc \in {"loop", "embed", "save"}

\* The loop moves on to the next change, or leaves for _save_state.
Advance(proc, failed) ==
    [proc EXCEPT
        !.todo = Tail(proc.todo),
        !.pc = IF Tail(proc.todo) = <<>> THEN "save" ELSE "loop",
        !.pending = <<>>,
        !.last = Last(Head(proc.todo), failed, proc.old_points)]

\* The handler as it would be were the hash of the file recorded before
\* the call that raised: the failed path enters the map of the pass.
OnErrorRecordsHash(proc) ==
    Advance([proc EXCEPT
                !.stats.errors = Append(@, Head(proc.todo).path),
                !.new_indexed_files =
                    Put(@, Head(proc.todo).path,
                        compute_file_hash(Head(proc.todo).path))], TRUE)

\* except Exception as e: stats["errors"].append(f"{path}: {e}")
OnError(proc) ==
    Advance([proc EXCEPT
                !.stats.errors = Append(@, Head(proc.todo).path)], TRUE)

\* The task takes up the change at the head of its list; the points of
\* the file (under its old path when it was renamed) are noted.
Begin(proc) ==
    LET change == Head(proc.todo)
    IN  [proc EXCEPT !.old_points =
            Matching(semantic, IF change.change_type = "R"
                               THEN change.old_path
                               ELSE change.path)]

\* The task calls _delete_file_chunks, _rename_file_chunks or _index_file
\* for the change.
Work(proc) ==
    [Begin(proc) EXCEPT !.attempted = @ \cup {Head(proc.todo).path}]

\* The calls to the store that may raise.
StoreFails ==
    {"count", "delete_semantic", "delete_symbols", "scroll", "upsert",
     "upsert_symbols"}

\* The record of a step in which the call `fail` raised ("none": no call
\* did), `returned` tells that a store call returned and `written` that a
\* store write was done.
Noted(proc, fail, returned, written) ==
    [proc EXCEPT
        !.raises = IF fail = "none" THEN @ ELSE @ + 1,
        !.store_failed = @ \/ fail \in StoreFails,
        !.store_ok = @ \/ returned,
        !.wrote = @ \/ written]

\* _incremental_update up to its loop.
StartIncremental(state, m) ==
    LET changes == SelectSeq(get_changes_since(state.git_commit, m),
                             LAMBDA c : Supported(c.path))
    IN  [IdleProc EXCEPT
            !.pc = IF changes = <<>> THEN "save" ELSE "loop",
            !.state = state,
            !.todo = changes,
            !.new_indexed_files = state.indexed_files]

RECURSIVE AsFiles(_)
AsFiles(paths) ==
    IF paths = <<>>
    THEN <<>>
    ELSE <<FileChange(Head(paths), "F", "")>> \o AsFiles(Tail(paths))

\* _full_index up to its loop.
StartFull ==
    LET files == AsFiles(get_all_tracked_files)
    IN  [IdleProc EXCEPT
            !.pc = IF files = <<>> THEN "save" ELSE "loop",
            !.full = TRUE,
            !.todo = files]

\* IncrementalIndexer.index
StartIndex(i, full_reindex) ==
    /\ ~Running(i)
    /\ cpu = 0
    /\ nPasses < MaxPasses
    /\ LET state == IF full_reindex THEN NoState ELSE load_state(stateFile)
       IN  \E m \in IF state.kind = "valid"
                     THEN RenameMaps(state.git_commit)
                     ELSE {EmptyDict} :
             procs' = [procs EXCEPT ![i] =
                 [(IF state.kind = "valid"
                   THEN StartIncremental(state, m)
                   ELSE StartFull)
                  EXCEPT !.fileBefore = stateFile,
                         !.full_reindex = full_reindex,
                         !.loaded = ~full_reindex,
                         !.mustRetry = IF edited THEN {} ELSE prevFailed]]
    /\ cpu' = i
    /\ edited' = FALSE
    /\ nPasses' = nPasses + 1
    /\ UNCHANGED <<watcher, call>>
    /\ UNCHANGED <<head, work, stateFile, semantic, symbols, prevFailed,
                   nEdits>>

\* The statements after `chunks = await self._index_file(...)` returned
\* `chunks`, in the branch of the change (ADDED, MODIFIED) or in the loop of
\* _full_index ("F").
Indexed(proc, chunks) ==
    LET change == Head(proc.todo)
        file_hash == compute_file_hash(change.path)
        files == Put(proc.new_indexed_files, change.path, file_hash)
    IN  Advance(
          CASE change.change_type = "A" ->
                 [proc EXCEPT !.new_indexed_files = files,
                              !.stats.files_added = @ + 1,
                              !.stats.chunks_added = @ + Len(chunks)]
            [] change.change_type = "M" ->
                 [proc EXCEPT !.new_indexed_files = files,
                              !.stats.files_modified = @ + 1,
                              !.stats.chunks_added = @ + Len(chunks)]
            [] OTHER ->
                 [proc EXCEPT !.new_indexed_files = files,
                              !.stats.files_indexed = @ + 1,
                              !.stats.chunks_created = @ + Len(chunks)],
          FALSE)

\* _index_file up to `await self._batch_embed(contents)`: a file that does
\* not exist or has no chunks returns [] at once; chunk_file may raise
\* (fail = "chunk"); otherwise the task is suspended with the chunks.
EnterIndexFile(proc, fail) ==
    LET path == Head(proc.todo).path
        chunks == chunk_file(work[path])
    IN  IF work[path] = NoFile
        THEN Indexed(proc, <<>>)
        ELSE IF fail = "chunk"
        THEN OnError(proc)
        ELSE IF chunks = <<>>
        THEN Indexed(proc, <<>>)
        ELSE [proc EXCEPT !.pc = "embed", !.pending = chunks]

\* The calls of _delete_file_chunks that may raise.
DeleteFails == {"count", "delete_semantic", "delete_symbols"}

\* The calls that may raise: chunk_file, the embedder, the store.
Fails == {"none", "chunk", "embed"} \cup StoreFails

\* code_semantic and code_symbols after _delete_file_chunks(path) ran to
\* its end (fail = "none") or raised in the call `fail`.
SemanticAfterDelete(fail, path) ==
    IF fail \in {"count", "delete_semantic"}
    THEN semantic
    ELSE DeleteByPath(semantic, path)

SymbolsAfterDelete(fail, path) ==
    IF fail \in DeleteFails THEN symbols ELSE DeleteByPath(symbols, path)

\* A step of task i at the top of its loop, on a change of type t.
AtChange(i, t) ==
    /\ procs[i].pc = "loop"
    /\ cpu = i
    /\ Head(procs[i].todo).change_type = t

\* The event loop after a step of task i: free when the task is suspended.
Yield(i) == cpu' = IF procs'[i].pc = "embed" THEN 0 ELSE i

\* change_type == DELETED
ProcessDeleted(i, fail) ==
    /\ AtChange(i, "D")
    /\ fail \in {"none"} \cup DeleteFails
    /\ LET proc == Noted(Work(procs[i]), fail, fail # "count",
                         fail \in {"none", "delete_symbols"})
           path == Head(proc.todo).path
           deleted == Cardinality(Matching(semantic, path))
       IN  /\ semantic' = SemanticAfterDelete(fail, path)
           /\ symbols' = SymbolsAfterDelete(fail, path)
           /\ procs' = [procs EXCEPT ![i] =
                 IF fail = "none"
                 THEN Advance([proc EXCEPT
                         !.stats.files_deleted = @ + 1,
                         !.stats.chunks_deleted = @ + deleted,
                         !.new_indexed_files = Pop(@, path)], FALSE)
                 ELSE OnError(proc)]
    /\ Yield(i)
    /\ UNCHANGED <<watcher, call>>
    /\ UNCHANGED <<head, work, stateFile, edited, prevFailed, nPasses,
                   nEdits>>

\* change_type == ADDED
ProcessAdded(i, fail) ==
    /\ AtChange(i, "A")
    /\ fail \in {"none", "chunk"}
    /\ procs' = [procs EXCEPT ![i] =
          EnterIndexFile(Noted(Work(procs[i]), fail, FALSE, FALSE), fail)]
    /\ Yield(i)
    /\ UNCHANGED <<watcher, call>>
    /\ UNCHANGED <<head, work, stateFile, semantic, symbols, edited,
                   prevFailed, nPasses, nEdits>>

\* The loop of _full_index over the tracked files.
ProcessFile(i, fail) ==
    /\ AtChange(i, "F")
    /\ fail \in {"none", "chunk"}
    /\ procs' = [procs EXCEPT ![i] =
          EnterIndexFile(Noted(Work(procs[i]), fail, FALSE, FALSE), fail)]
    /\ Yield(i)
    /\ UNCHANGED <<watcher, call>>
    /\ UNCHANGED <<head, work, stateFile, semantic, symbols, edited,
                   prevFailed, nPasses, nEdits>>

\* change_type == MODIFIED
ProcessModified(i, fail) ==
    /\ AtChange(i, "M")
    /\ fail \in {"none", "chunk"} \cup DeleteFails
    /\ LET path == Head(procs[i].todo).path
           new_hash == compute_file_hash(path)
           old_hash == Get(procs[i].state.indexed_files, path)
           deleted == Cardinality(Matching(semantic, path))
           proc == Noted(Work(procs[i]), fail, fail # "count",
                         fail \notin {"count", "delete_semantic"})
       IN  IF new_hash = old_hash
           THEN /\ fail = "none"
                /\ procs' = [procs EXCEPT ![i] =
                                 Advance(Begin(procs[i]), FALSE)]
                /\ UNCHANGED <<semantic, symbols>>
           ELSE /\ semantic' = SemanticAfterDelete(fail, path)
                /\ symbols' = SymbolsAfterDelete(fail, path)
                /\ procs' = [procs EXCEPT ![i] =
                      IF fail \in DeleteFails
                      THEN OnError(proc)
                      ELSE EnterIndexFile(
                             [proc EXCEPT !.stats.chunks_deleted = @ + deleted],
                             fail)]
    /\ Yield(i)
    /\ UNCHANGED <<watcher, call>>
    /\ UNCHANGED <<head, work, stateFile, edited, prevFailed, nPasses,
                   nEdits>>

\* change_type == RENAMED, with _rename_file_chunks, which may raise in its
\* scroll or in its upsert.
ProcessRenamed(i, fail) ==
    /\ AtChange(i, "R")
    /\ fail \in {"none", "scroll", "upsert"}
    /\ LET change == Head(procs[i].todo)
           points == Matching(semantic, change.old_path)
           proc == Noted(Work(procs[i]), fail, fail # "scroll",
                         fail = "none" /\ points # {})
           old_hash == GetOr(proc.new_indexed_files, change.old_path,
                             EmptyString)
       IN  /\ fail = "upsert" => points # {}
           /\ semantic' = IF fail = "none" /\ points # {}
                           THEN Upsert(semantic, Repathed(points, change.path))
                           ELSE semantic
           /\ procs' = [procs EXCEPT ![i] =
                 IF fail = "none"
                 THEN Advance([proc EXCEPT
                         !.new_indexed_files =
                             Put(Pop(@, change.old_path), change.path, old_hash),
                         !.stats.files_modified = @ + 1], FALSE)
                 ELSE OnError(proc)]
    /\ Yield(i)
    /\ UNCHANGED <<watcher, call>>
    /\ UNCHANGED <<head, work, stateFile, symbols, edited, prevFailed,
                   nPasses, nEdits>>

\* _index_file from the await on: the embedder ran for every chunk (and
\* may have raised), then the upsert into code_semantic and the upsert of
\* the function, class and method points into code_symbols, each of which
\* may raise.
ResumeEmbed(i, fail) ==
    /\ procs[i].pc = "embed"
    /\ cpu = 0
    /\ fail \in {"none", "embed", "upsert", "upsert_symbols"}
    /\ LET path == Head(procs[i].todo).path
           proc == Noted([procs[i] EXCEPT !.embedded = @ \cup {path}], fail,
                         fail \in {"none", "upsert_symbols"},
                         fail \in {"none", "upsert_symbols"})
           points == PointsOf(proc.pending, path)
           symbol_points == SymbolPoints(points)
       IN  /\ fail = "upsert_symbols" => symbol_points # {}
           /\ semantic' = IF fail \in {"none", "upsert_symbols"}
                           THEN Upsert(semantic, points)
                           ELSE semantic
           /\ symbols' = IF fail = "none" /\ symbol_points # {}
                          THEN Upsert(symbols, symbol_points)
                          ELSE symbols
           /\ procs' = [procs EXCEPT ![i] =
                 IF fail = "none"
                 THEN Indexed(proc, proc.pending)
                 ELSE OnError(proc)]
    /\ cpu' = i
    /\ UNCHANGED <<watcher, call>>
    /\ UNCHANGED <<head, work, stateFile, edited, prevFailed, nPasses,
                   nEdits>>

\* The IndexState the pass builds after its loop: _incremental_update
\* adjusts the loaded total_chunks and counts the entries of the map;
\* _full_index takes both totals from its stats.
NewState(proc) ==
    IF proc.full
    THEN IndexState(head, proc.new_indexed_files, proc.stats.chunks_created,
                    proc.stats.files_indexed)
    ELSE IndexState(head, proc.new_indexed_files,
                    proc.state.total_chunks + proc.stats.chunks_added
                        - proc.stats.chunks_deleted,
                    Cardinality(DOMAIN proc.new_indexed_files))

RECURSIVE Range(_)
Range(seq) == IF seq = <<>> THEN {} ELSE {Head(seq)} \cup Range(Tail(seq))

\* _save_state, whole: state_path.write_text(json.dumps(...)); then the
\* pass returns its stats.
SaveState(i) ==
    /\ procs[i].pc = "save"
    /\ cpu = i
    /\ stateFile' = NewState(procs[i])
    /\ procs' = [procs EXCEPT ![i].pc = "done"]
    /\ cpu' = 0
    /\ prevFailed' = Range(procs[i].stats.errors)
    /\ UNCHANGED <<watcher, call>>
    /\ UNCHANGED <<head, work, semantic, symbols, edited, nPasses, nEdits>>

\* The process dies inside _save_state, after write_text opened the state
\* file for writing (which truncates it) and before the text is all
\* written.  Every task of the process dies with it.
CrashInSave(i) ==
    /\ procs[i].pc = "save"
    /\ cpu = i
    /\ stateFile' = PartialFile
    /\ procs' = [j \in Procs |->
                    IF Running(j) THEN [procs[j] EXCEPT !.pc = "crashed"]
                    ELSE procs[j]]
    /\ cpu' = 0
    /\ UNCHANGED <<watcher, call>>
    /\ UNCHANGED <<head, work, semantic, symbols, edited, prevFailed,
                   nPasses, nEdits>>

\* ------------------------------------------------------ repository edits

\* The repository is edited between passes.
CanEdit ==
    /\ \A i \in Procs : ~Running(i)
    /\ nEdits < MaxEdits

Edit(new_head, new_work) ==
    /\ head' = new_head
    /\ work' = new_work
    /\ edited' = TRUE
    /\ nEdits' = nEdits + 1
    /\ UNCHANGED <<watcher, call>>
    /\ UNCHANGED <<stateFile, semantic, symbols, procs, cpu, prevFailed,
                   nPasses>>

\* A new file, or an untracked one, is committed with content c.
GitAdd(path, c) ==
    /\ CanEdit
    /\ head[path] = NoFile
    /\ work[path] \in {NoFile, c}
    /\ Edit([head EXCEPT ![path] = c], [work EXCEPT ![path] = c])

\* A tracked file is changed to content c and committed.
GitModify(path, c) ==
    /\ CanEdit
    /\ head[path] \notin {NoFile, c}
    /\ Edit([head EXCEPT ![path] = c], [work EXCEPT ![path] = c])

\* A tracked file is removed and the removal committed.
GitDelete(path) ==
    /\ CanEdit
    /\ head[path] # NoFile
    /\ Edit([head EXCEPT ![path] = NoFile], [work EXCEPT ![path] = NoFile])

\* A tracked file is moved to a free path, left with content c (its own
\* or an edited one), and the move committed.
GitRename(old_path, new_path, c) ==
    /\ CanEdit
    /\ head[old_path] # NoFile
    /\ head[new_path] = NoFile
    /\ work[new_path] = NoFile
    /\ Edit([head EXCEPT ![old_path] = NoFile, ![new_path] = c],
            [work EXCEPT ![old_path] = NoFile, ![new_path] = c])

\* A file git does not track is written with content c.
WriteUntracked(path, c) ==
    /\ CanEdit
    /\ head[path] = NoFile
    /\ work[path] # c
    /\ Edit(head, [work EXCEPT ![path] = c])

\* ------------------------------------------------- search and context

\* No call of the search or context functions was made.
NoCall == [op |-> "none"]

\* ------------------------------------------------------ ContextAssembler

\* ContextPriority, in tenths.
CRITICAL == 10
HIGH == 8
MEDIUM == 6
LOW == 4
BACKGROUND == 2

\* A SearchResult handed to assemble().  Scores are in hundredths; the
\* content is given by the number of its tokens and by whether it ends in
\* the truncation marker; a missing symbol_name is "".
SearchResult(file_path, start_line, end_line, symbol_name, chunk_type, score, tokens) ==
    [file_path |-> file_path, start_line |-> start_line,
     end_line |-> end_line, symbol_name |-> symbol_name,
     chunk_type |-> chunk_type, score |-> score,
     content |-> [tokens |-> tokens, marker |-> FALSE]]

\* ContextAssembler._count_tokens
count_tokens(content) == content.tokens

\* ContextAssembler._determine_priority; the query is the set of the
\* symbol names that occur in it.
determine_priority(result, query) ==
    IF result.symbol_name # "" /\ result.symbol_name \in query THEN CRITICAL
    ELSE IF result.chunk_type \in {"function", "class", "method"} THEN HIGH
    ELSE IF result.score > 80 THEN HIGH
    ELSE IF result.score > 60 THEN MEDIUM
    ELSE LOW

\* ContextAssembler._create_chunks, for one result.
ContextChunk(result, query) ==
    [content |-> result.content,
     file_path |-> result.file_path,
     start_line |-> result.start_line,
     end_line |-> result.end_line,
     priority |-> determine_priority(result, query),
     relevance_score |-> result.score,
     token_count |-> count_tokens(result.content),
     symbol_name |-> result.symbol_name,
     chunk_type |-> result.chunk_type,
     is_definition |-> result.chunk_type \in {"function", "class", "method"}]

create_chunks(search_results, query) ==
    [k \in 1..Len(search_results) |-> ContextChunk(search_results[k], query)]

\* ContextChunk.effective_score (in thousandths)
effective_score(c) == c.relevance_score * c.priority

\* list.sort / sorted: ascending in key, equal keys keep their order.
InsertSorted(sorted, c, key) ==
    LET k == Cardinality({j \in 1..Len(sorted) : key[sorted[j]] <= key[c]})
    IN  SubSeq(sorted, 1, k) \o <<c>> \o SubSeq(sorted, k + 1, Len(sorted))

RECURSIVE StableSort(_, _)
StableSort(seq, key) ==
    IF seq = <<>>
    THEN <<>>
    ELSE InsertSorted(StableSort(SubSeq(seq, 1, Len(seq) - 1), key),
                      seq[Len(seq)], key)

\* sorted(chunks, key=lambda c: c.effective_score, reverse=True)
ByScore(chunks) ==
    StableSort(chunks, [c \in Range(chunks) |-> 0 - effective_score(c)])

\* ContextAssembler._chunks_overlap
chunks_overlap(a, b) ==
    IF a.file_path # b.file_path
    THEN FALSE
    ELSE ~(a.end_line < b.start_line \/ a.start_line > b.end_line)

\* ContextAssembler._chunk_contains
chunk_contains(outer, inner) ==
    IF outer.file_path # inner.file_path
    THEN FALSE
    ELSE outer.start_line <= inner.start_line
            /\ outer.end_line >= inner.end_line

\* One turn of the loop of _deduplicate: the chunk is compared with the
\* kept chunks in order; at the first one it overlaps the search stops, and
\* the chunk takes its place (at the end of the list) when it contains it.
DedupStep(deduplicated, chunk) ==
    LET over == {j \in 1..Len(deduplicated) :
                    chunks_overlap(chunk, deduplicated[j])}
    IN  IF over = {}
        THEN Append(deduplicated, chunk)
        ELSE LET j == CHOOSE x \in over : \A y \in over : x <= y
             IN  IF chunk_contains(chunk, deduplicated[j])
                 THEN Append(SubSeq(deduplicated, 1, j - 1)
                                \o SubSeq(deduplicated, j + 1,
                                          Len(deduplicated)),
                             chunk)
                 ELSE deduplicated

RECURSIVE DedupLoop(_, _)
DedupLoop(deduplicated, sorted_chunks) ==
    IF sorted_chunks = <<>>
    THEN deduplicated
    ELSE DedupLoop(DedupStep(deduplicated, Head(sorted_chunks)),
                   Tail(sorted_chunks))

\* ContextAssembler._deduplicate
deduplicate(chunks) ==
    IF chunks = <<>> THEN chunks ELSE DedupLoop(<<>>, ByScore(chunks))


\* The least remaining budget above which a chunk is truncated.
MinTruncated == 100

\* The tokens kept back for the truncation marker.
MarkerReserve == 10

\* _truncate_chunk as it would be did it leave token_count as it was.
TruncateKeepsCount(chunk, max_tokens) ==
    [chunk EXCEPT
        !.content =
            [tokens |-> IF chunk.content.tokens < max_tokens - MarkerReserve
                        THEN chunk.content.tokens
                        ELSE max_tokens - MarkerReserve,
             marker |-> TRUE]]

\* ContextAssembler._truncate_chunk: the first max_tokens - 10 tokens of
\* the content and the marker; token_count is set to max_tokens.
truncate_chunk(chunk, max_tokens) ==
    [chunk EXCEPT
        !.content =
            [tokens |-> IF chunk.content.tokens < max_tokens - MarkerReserve
                        THEN chunk.content.tokens
                        ELSE max_tokens - MarkerReserve,
             marker |-> TRUE],
        !.token_count = max_tokens]

\* The turn of the loop as it would be without the floor of 100 tokens:
\* whatever does not fit is cut to the remaining budget.
BudgetStepAlwaysTruncates(b, chunk, available_tokens) ==
    LET remaining == available_tokens - b.used_tokens
        noted(outcome) == Append(b.log, [chunk |-> chunk,
                                         remaining |-> remaining,
                                         outcome |-> outcome])
    IN  IF b.done \/ b.used_tokens >= available_tokens
        THEN [b EXCEPT !.done = TRUE, !.log = noted("break")]
        ELSE IF chunk.token_count <= remaining
        THEN [b EXCEPT !.selected = Append(@, chunk),
                       !.used_tokens = @ + chunk.token_count,
                       !.log = noted("whole")]
        ELSE [b EXCEPT !.selected =
                            Append(@, truncate_chunk(chunk, remaining)),
                       !.used_tokens = @ + remaining,
                       !.truncated_count = @ + 1,
                       !.log = noted("truncated")]

\* The turn of the loop as it would be without the test that ends the
\* loop when the budget is used up.
BudgetStepNoBreak(b, chunk, available_tokens) ==
    LET remaining == available_tokens - b.used_tokens
        noted(outcome) == Append(b.log, [chunk |-> chunk,
                                         remaining |-> remaining,
                                         outcome |-> outcome])
    IN  IF chunk.token_count <= remaining
        THEN [b EXCEPT !.selected = Append(@, chunk),
                       !.used_tokens = @ + chunk.token_count,
                       !.log = noted("whole")]
        ELSE IF remaining > MinTruncated
        THEN [b EXCEPT !.selected =
                            Append(@, truncate_chunk(chunk, remaining)),
                       !.used_tokens =
                            @ + truncate_chunk(chunk, remaining).token_count,
                       !.truncated_count = @ + 1,
                       !.log = noted("truncated")]
        ELSE [b EXCEPT !.log = noted("left out")]

\* One turn of the loop of _apply_budget on the locals b (used_tokens,
\* selected, truncated_count; done after the break).  log records per
\* chunk the remaining budget it met and what became of it.
BudgetStep(b, chunk, available_tokens) ==
    LET remaining == available_tokens - b.used_tokens
        noted(outcome) == Append(b.log, [chunk |-> chunk,
                                         remaining |-> remaining,
                                         outcome |-> outcome])
    IN  IF b.done \/ b.used_tokens >= available_tokens
        THEN [b EXCEPT !.done = TRUE, !.log = noted("break")]
        ELSE IF chunk.token_count <= remaining
        THEN [b EXCEPT !.selected = Append(@, chunk),
                       !.used_tokens = @ + chunk.token_count,
                       !.log = noted("whole")]
        ELSE IF remaining > MinTruncated
        THEN [b EXCEPT !.selected =
                            Append(@, truncate_chunk(chunk, remaining)),
                       !.used_tokens =
                            @ + truncate_chunk(chunk, remaining).token_count,
                       !.truncated_count = @ + 1,
                       !.log = noted("truncated")]
        ELSE [b EXCEPT !.log = noted("left out")]

RECURSIVE BudgetLoop(_, _, _)
BudgetLoop(b, chunks, available_tokens) ==
    IF chunks = <<>>
    THEN b
    ELSE BudgetLoop(BudgetStep(b, Head(chunks), available_tokens),
                    Tail(chunks), available_tokens)

\* ContextAssembler._apply_budget: selected and the stats (budget_used, a
\* quotient of floats, is left out).
apply_budget(chunks, max_tokens, reserve_tokens) ==
    LET available_tokens == max_tokens - reserve_tokens
        b == BudgetLoop([used_tokens |-> 0, selected |-> <<>>,
                         truncated_count |-> 0, done |-> FALSE,
                         log |-> <<>>],
                        chunks, available_tokens)
    IN  [selected |-> b.selected,
         total_tokens |-> b.used_tokens,
         files |-> Cardinality({c.file_path : c \in Range(b.selected)}),
         symbols |-> Cardinality({c.symbol_name : c \in Range(b.selected)}
                                    \ {""}),
         truncated |-> b.truncated_count,
         log |-> b.log]

\* The place of a string in the order of str comparison, among the file
\* paths and among the symbol names of the model.
PathRank(path) == CHOOSE k \in 1..Len(PathSeq) : PathSeq[k] = path
NameSeq == <<"", "f", "g">>
NameRank(name) == CHOOSE k \in 1..Len(NameSeq) : NameSeq[k] = name

\* _order_for_prompt as it would be did it leave the definitions in the
\* order it is given them.
OrderKeepsDefinitions(chunks) ==
    SelectSeq(chunks, LAMBDA c : c.is_definition)
        \o ByScore(SelectSeq(chunks, LAMBDA c : ~c.is_definition))

\* ContextAssembler._order_for_prompt
order_for_prompt(chunks) ==
    LET definitions == SelectSeq(chunks, LAMBDA c : c.is_definition)
        non_definitions == SelectSeq(chunks, LAMBDA c : ~c.is_definition)
    IN  StableSort(definitions,
                   [c \in Range(definitions) |->
                       PathRank(c.file_path) * (Len(NameSeq) + 1)
                           + NameRank(c.symbol_name)])
        \o ByScore(non_definitions)

\* ContextAssembler.assemble: the AssembledContext, with the lists of the
\* steps in between.
assemble(search_results, query, max_tokens, reserve_tokens) ==
    LET created == create_chunks(search_results, query)
        deduplicated == deduplicate(created)
        sorted == ByScore(deduplicated)
        budget == apply_budget(sorted, max_tokens, reserve_tokens)
    IN  [chunks |-> order_for_prompt(budget.selected),
         total_tokens |-> budget.total_tokens,
         files_included |-> budget.files,
         symbols_included |-> budget.symbols,
         truncated_chunks |-> budget.truncated,
         deduplicated |-> deduplicated,
         sorted |-> sorted,
         selected |-> budget.selected,
         log |-> budget.log]

\* The hits, queries and configurations assemble() is called with.
Spans ==
    {<<"a.py", 1, 5, "f">>, <<"a.py", 8, 12, "g">>, <<"a.py", 1, 10, "">>,
     <<"b.py", 1, 5, "f">>}
Scores == {50, 90}
TokenCounts == {400, 850}
ChunkTypes == {"function", "block"}
Results ==
    {SearchResult(sp[1], sp[2], sp[3], sp[4], t, sc, n) :
        sp \in Spans, t \in ChunkTypes, sc \in Scores, n \in TokenCounts}
    \cup {SearchResult("b.py", 20, 20, "", "block", sc, 0) : sc \in Scores}
ResultLists == UNION {[1..n -> Results] : n \in 0..MaxHits}
Query == {"g"}
Configs == {<<1000, 100>>, <<800, 0>>, <<100, 200>>}

AssembleInputs ==
    {[op |-> "input", search_results |-> h, query |-> Query,
      max_tokens |-> cfg[1], reserve_tokens |-> cfg[2]] :
        h \in ResultLists, cfg \in Configs}

\* ContextAssembler(max_tokens, reserve_tokens).assemble(search_results,
\* query)
Assemble ==
    /\ call.op = "input"
    /\ call' = [op |-> "assemble",
                search_results |-> call.search_results,
                query |-> call.query,
                max_tokens |-> call.max_tokens,
                reserve_tokens |-> call.reserve_tokens,
                context |-> assemble(call.search_results, call.query,
                                     call.max_tokens, call.reserve_tokens)]
    /\ UNCHANGED <<head, work, stateFile, semantic, symbols, procs, cpu,
                   edited, prevFailed, nPasses, nEdits, watcher>>

\* ----------------------------------- ContextAssembler: priority of a hit

\* Texts are sequences of characters; str.lower of a character.
lower_char(ch) ==
    CASE ch = "F" -> "f"
      [] ch = "O" -> "o"
      [] OTHER -> ch

\* str.lower
lower(text) == [j \in 1..Len(text) |-> lower_char(text[j])]

\* `name in text` of two strings.
Occurs(name, text) ==
    \E offset \in 0..(Len(text) - Len(name)) :
        SubSeq(text, offset + 1, offset + Len(name)) = name

\* _determine_priority as it would be did it compare the name to the
\* query as they are written.
DeterminePriorityCaseSensitive(result, query) ==
    IF result.symbol_name # <<>> /\ Occurs(result.symbol_name, query)
    THEN CRITICAL
    ELSE IF result.chunk_type \in {"function", "class", "method"} THEN HIGH
    ELSE IF result.score > 80 THEN HIGH
    ELSE IF result.score > 60 THEN MEDIUM
    ELSE LOW

\* ContextAssembler._determine_priority, the query and the symbol name
\* being texts; a symbol_name of None or "" is the empty text.
determine_priority_(result, query) ==
    IF /\ result.symbol_name # <<>>
       /\ Occurs(lower(result.symbol_name), lower(query))
    THEN CRITICAL
    ELSE IF result.chunk_type \in {"function", "class", "method"} THEN HIGH
    ELSE IF result.score > 80 THEN HIGH
    ELSE IF result.score > 60 THEN MEDIUM
    ELSE LOW

Characters == {"f", "F", "o", "x"}
SymbolNames == {<<>>, <<"f">>, <<"F">>, <<"f", "O">>}
QueryTexts == UNION {[1..n -> Characters] : n \in 0..MaxQuery}
HitTypes == {"function", "class", "method", "block", "module", "file"}
HitScores == {0, 50, 60, 61, 80, 81, 100}
PriorityInputs ==
    {[op |-> "hit",
      result |-> [symbol_name |-> name, chunk_type |-> t, score |-> sc],
      query |-> query] :
        name \in SymbolNames, t \in HitTypes, sc \in HitScores,
        query \in QueryTexts}

\* _create_chunks for one hit: its priority and the effective_score of
\* the chunk made of it.
DeterminePriority ==
    /\ call.op = "hit"
    /\ LET priority == determine_priority_(call.result, call.query)
       IN  call' = [op |-> "classified",
                    result |-> call.result,
                    query |-> call.query,
                    priority |-> priority,
                    effective_score |->
                        effective_score([relevance_score |-> call.result.score,
                                         priority |-> priority])]
    /\ UNCHANGED <<head, work, stateFile, semantic, symbols, procs, cpu,
                   edited, prevFailed, nPasses, nEdits, watcher>>

\* --------------------------------------------------- HybridSearchEngine

\* SearchMode
SearchMode == {"semantic", "keyword", "hybrid", "exact"}

\* A point of the store, as the client returns it: id, score and payload.
\* Scores are in hundredths.
ScoredPoint(id, score, file_path, start_line, end_line) ==
    [id |-> id, score |-> score,
     payload |-> [file_path |-> file_path, start_line |-> start_line,
                  end_line |-> end_line]]

\* The chunks in the store, by id, and the scores the store gives them.
StoredSpans ==
    <<<<"a.py", 1, 5>>, <<"a.py", 4, 8>>, <<"a.py", 7, 10>>,
      <<"b.py", 1, 5>>>>
PointScores == {40, 60}
Points ==
    {ScoredPoint(id, sc, StoredSpans[id][1], StoredSpans[id][2],
                 StoredSpans[id][3]) :
        id \in 1..Len(StoredSpans), sc \in PointScores}

\* The lists of points the store can answer with: no point twice.
PointLists ==
    {r \in UNION {[1..n -> Points] : n \in 0..MaxHits} :
        \A j, k \in 1..Len(r) : j # k => r[j].id # r[k].id}

\* SearchResult.overlaps_with
overlaps_with(self, other) ==
    IF self.file_path # other.file_path
    THEN FALSE
    ELSE ~(self.end_line < other.start_line
              \/ self.start_line > other.end_line)

\* HybridSearchEngine._convert_results
convert_results(points) ==
    [k \in 1..Len(points) |->
        [id |-> points[k].id, score |-> points[k].score,
         file_path |-> points[k].payload.file_path,
         start_line |-> points[k].payload.start_line,
         end_line |-> points[k].payload.end_line]]

\* The score _exact_search gives every point of the scroll.
ExactScore == 100

\* HybridSearchEngine._exact_search, from the points of the scroll on.
exact_search(points) ==
    [k \in 1..Len(points) |->
        [id |-> points[k].id, score |-> ExactScore,
         file_path |-> points[k].payload.file_path,
         start_line |-> points[k].payload.start_line,
         end_line |-> points[k].payload.end_line]]

\* No request reaches the store.
NoRequest == [method |-> "none", limit |-> 0]

\* The request search() sends to the store, by mode: the scroll of
\* _exact_search, the query_points of _keyword_search (none when
\* sparse_embed is not configured), of _semantic_search and of
\* _hybrid_search with its prefetches.
store_request(engine, query) ==
    IF query.mode = "exact"
    THEN [method |-> "scroll", limit |-> query.limit]
    ELSE IF query.mode = "keyword"
    THEN IF ~engine.sparse_embed
         THEN NoRequest
         ELSE [method |-> "query_points", using |-> {"sparse"},
               limit |-> query.limit * 2]
    ELSE IF query.mode = "semantic"
    THEN [method |-> "query_points", using |-> {"dense"},
          limit |-> query.limit * 2]
    ELSE [method |-> "query_points",
          using |-> IF engine.sparse_embed THEN {"dense", "sparse"}
                    ELSE {"dense"},
          fusion |-> "rrf",
          limit |-> query.limit * 2]

\* What the store can answer a request: at most `limit` points, those of
\* query_points in descending score.
Answers(request) ==
    IF request.method = "none"
    THEN {<<>>}
    ELSE {r \in PointLists :
            /\ Len(r) <= request.limit
            /\ request.method = "query_points"
               => \A k \in 1..(Len(r) - 1) : r[k].score >= r[k + 1].score}

\* The scores the cross-encoder gives.
RerankScores == {30, 70}

\* HybridSearchEngine._rerank_results
rerank_results(results, new_scores) ==
    LET scored == [k \in 1..Len(results) |->
                      IF k <= Len(new_scores)
                      THEN [results[k] EXCEPT !.score = new_scores[k]]
                      ELSE results[k]]
    IN  StableSort(scored, [r \in Range(scored) |-> 0 - r.score])

\* The turn of the loop as it would be did it compare the result with
\* the last kept one only.
DedupResultAgainstLast(deduplicated, result) ==
    IF /\ deduplicated # <<>>
       /\ overlaps_with(result, deduplicated[Len(deduplicated)])
    THEN deduplicated
    ELSE Append(deduplicated, result)

\* One turn of the loop of _deduplicate_results.
DedupResultStep(deduplicated, result) ==
    IF \E k \in 1..Len(deduplicated) :
          overlaps_with(result, deduplicated[k])
    THEN deduplicated
    ELSE Append(deduplicated, result)

RECURSIVE DedupResultLoop(_, _)
DedupResultLoop(deduplicated, results) ==
    IF results = <<>>
    THEN deduplicated
    ELSE DedupResultLoop(DedupResultStep(deduplicated, Head(results)),
                         Tail(results))

\* HybridSearchEngine._deduplicate_results
deduplicate_results(results) ==
    IF results = <<>> THEN results ELSE DedupResultLoop(<<>>, results)

\* Whether search() calls the cross-encoder for the answer of the store.
Reranks(engine, query, response) ==
    query.rerank /\ engine.rerank /\ Len(response) > 1

\* HybridSearchEngine.search, given the answer of the store and that of
\* the cross-encoder.  The module has no logger: no warning is recorded.
search(engine, query, response, new_scores) ==
    IF query.mode = "keyword" /\ ~engine.sparse_embed
    THEN [outcome |-> "raised", error |-> "ValueError", warnings |-> <<>>]
    ELSE LET found == IF query.mode = "exact"
                      THEN exact_search(response)
                      ELSE convert_results(response)
             reranked == IF Reranks(engine, query, response)
                         THEN rerank_results(found, new_scores)
                         ELSE found
             deduplicated == IF query.deduplicate
                             THEN deduplicate_results(reranked)
                             ELSE reranked
             filtered == SelectSeq(deduplicated,
                                   LAMBDA r : r.score >= query.min_score)
         IN  [outcome |-> "returned",
              results |-> SubSeq(filtered, 1,
                                 IF Len(filtered) < query.limit
                                 THEN Len(filtered) ELSE query.limit),
              reranked |-> reranked,
              warnings |-> <<>>]

\* The engines and queries search() is called with.
Engines == [sparse_embed : BOOLEAN, rerank : BOOLEAN]
Limits == {1, 10}
MinScores == {0, 50}
Queries ==
    [mode : SearchMode, limit : Limits, min_score : MinScores,
     rerank : BOOLEAN, deduplicate : BOOLEAN]
SearchInputs == [op : {"query"}, engine : Engines, query : Queries]

\* HybridSearchEngine(...).search(query)
Search ==
    /\ call.op = "query"
    /\ \E response \in Answers(store_request(call.engine, call.query)) :
          \E new_scores \in
                IF Reranks(call.engine, call.query, response)
                THEN [1..Len(response) -> RerankScores]
                ELSE {<<>>} :
             call' = [op |-> "search",
                      engine |-> call.engine,
                      query |-> call.query,
                      request |-> store_request(call.engine, call.query),
                      response |-> response,
                      new_scores |-> new_scores,
                      result |-> search(call.engine, call.query, response,
                                        new_scores)]
    /\ UNCHANGED <<head, work, stateFile, semantic, symbols, procs, cpu,
                   edited, prevFailed, nPasses, nEdits, watcher>>

\* ------------------------------------------- HybridSearchEngine: filters

\* A condition of a Filter: FieldCondition(key, MatchAny(any)) or
\* FieldCondition(key, MatchValue(value)), the latter with one value.
FieldCondition(key, any) == [key |-> key, any |-> any]

\* Filter(must, must_not); a list that is None is <<>>.
Filter(must, must_not) ==
    [must |-> must, must_not |-> must_not, is_none |-> FALSE]

\* _build_filters returned None.
NoFilter == [must |-> <<>>, must_not |-> <<>>, is_none |-> TRUE]

\* HybridSearchEngine._build_filters; a filter of the query that is None
\* or empty is {}, and the paths to exclude come in the order of PathSeq.
build_filters(query) ==
    LET conditions ==
            (IF query.file_paths # {}
             THEN <<FieldCondition("file_path", query.file_paths)>>
             ELSE <<>>)
            \o (IF query.languages # {}
                THEN <<FieldCondition("language", query.languages)>>
                ELSE <<>>)
            \o (IF query.symbol_types # {}
                THEN <<FieldCondition("chunk_type", query.symbol_types)>>
                ELSE <<>>)
        excluded == SelectSeq(PathSeq, LAMBDA path : path \in query.exclude_paths)
        must_not == [j \in 1..Len(excluded) |->
                        FieldCondition("file_path", {excluded[j]})]
    IN  IF conditions = <<>> /\ must_not = <<>>
        THEN NoFilter
        ELSE Filter(conditions, must_not)

\* combined_filter of _exact_search as it would be did it keep must_not.
ExactFilterKeepsMustNot(query, filter_conditions) ==
    LET name_condition == FieldCondition("symbol_name", {query.text})
    IN  IF ~filter_conditions.is_none
        THEN Filter(filter_conditions.must \o <<name_condition>>,
                    filter_conditions.must_not)
        ELSE Filter(<<name_condition>>, <<>>)

\* combined_filter of _exact_search: must of the filters and the
\* condition on symbol_name; must_not is not passed on.
exact_filter(query, filter_conditions) ==
    LET name_condition == FieldCondition("symbol_name", {query.text})
    IN  IF ~filter_conditions.is_none
        THEN Filter(IF filter_conditions.must # <<>>
                    THEN filter_conditions.must \o <<name_condition>>
                    ELSE <<name_condition>>,
                    <<>>)
        ELSE Filter(<<name_condition>>, <<>>)

\* The filter of the request search() sends to the store: scroll_filter
\* of the scroll, filter of query_points, filter of every Prefetch.
store_filter(query) ==
    IF query.mode = "exact"
    THEN exact_filter(query, build_filters(query))
    ELSE build_filters(query)

\* The store's reading of a filter: a point passes when its payload
\* meets every condition of must and none of must_not.
Passes(point, filter) ==
    \/ filter.is_none
    \/ /\ \A j \in 1..Len(filter.must) :
             point.payload[filter.must[j].key] \in filter.must[j].any
       /\ \A j \in 1..Len(filter.must_not) :
             point.payload[filter.must_not[j].key]
                \notin filter.must_not[j].any

\* The chunks in the store of the filtered searches: every file, language
\* and kind, each on lines of its own.
FilterLanguages == {"python", "go"}
FilterKinds == {"function", "class"}
FilterFiles == {"a.py", "b.py"}
StoredChunk(id, file_path, language, chunk_type) ==
    [id |-> id, score |-> 60,
     payload |-> [file_path |-> file_path, start_line |-> 10 * id,
                  end_line |-> 10 * id + 5, language |-> language,
                  chunk_type |-> chunk_type, symbol_name |-> "f"]]
StoredChunks ==
    {StoredChunk(1 + (IF f = "a.py" THEN 0 ELSE 4)
                   + (IF l = "python" THEN 0 ELSE 2)
                   + (IF t = "function" THEN 0 ELSE 1), f, l, t) :
        f \in FilterFiles, l \in FilterLanguages, t \in FilterKinds}

\* What the store can answer a request with a filter: points that pass
\* it, none twice, at most MaxFiltered.
FilteredAnswers(request) ==
    IF request.method = "none"
    THEN {<<>>}
    ELSE {r \in UNION {[1..n -> {c \in StoredChunks :
                                    Passes(c, request.filter)}] :
                          n \in 0..MaxFiltered} :
            /\ Len(r) <= request.limit
            /\ \A j, m \in 1..Len(r) : j # m => r[j].id # r[m].id}

\* The engines and queries of the filtered searches.
FilteredInputs ==
    {[op |-> "filtered query",
      engine |-> [sparse_embed |-> sparse, rerank |-> FALSE],
      query |-> [text |-> "f", mode |-> mode, limit |-> 10, min_score |-> 50,
                 rerank |-> TRUE, deduplicate |-> TRUE,
                 file_paths |-> fp, languages |-> ls, symbol_types |-> st,
                 exclude_paths |-> ex]] :
        sparse \in BOOLEAN, mode \in SearchMode,
        fp \in {{}, {"a.py"}}, ls \in {{}, {"python"}},
        st \in {{}, {"function"}}, ex \in {{}, {"a.py"}, {"b.py"}}}

\* HybridSearchEngine(...).search(query) for a query with filters.
SearchFiltered ==
    /\ call.op = "filtered query"
    /\ LET request == store_request(call.engine, call.query)
                         @@ [filter |-> store_filter(call.query)]
       IN  \E response \in FilteredAnswers(request) :
              call' = [op |-> "filtered search",
                       engine |-> call.engine,
                       query |-> call.query,
                       request |-> request,
                       response |-> response,
                       result |-> search(call.engine, call.query, response,
                                         <<>>)]
    /\ UNCHANGED <<head, work, stateFile, semantic, symbols, procs, cpu,
                   edited, prevFailed, nPasses, nEdits, watcher>>

\* ------------------------------------------------------ MultiLevelSearch

\* Scores of _merge_results are fractions <<numerator, denominator>> with
\* a positive denominator.
FracAdd(a, b) == <<a[1] * b[2] + b[1] * a[2], a[2] * b[2]>>
FracLess(a, b) == a[1] * b[2] < b[1] * a[2]
FracEq(a, b) == a[1] * b[2] = b[1] * a[2]

\* k of _merge_results, and the factor 1.2 on the scores from symbols.
rrf_k == 60
SymbolBoost == <<6, 5>>
NoBoost == <<1, 1>>

\* A result of a search, as far as _merge_results reads it.
Found_(name) == [file_path |-> name, start_line |-> 1, score |-> <<0, 1>>]

\* f"{result.file_path}:{result.start_line}"
merge_key(result) == <<result.file_path, ":", result.start_line>>

\* The sum, over the places of the list at or after `pos` that hold the
\* key, of weight * 1.0 / (k + rank), rank = enumerate's count from 0.
RECURSIVE RankSum(_, _, _, _)
RankSum(results, key, pos, weight) ==
    IF pos > Len(results)
    THEN <<0, 1>>
    ELSE IF merge_key(results[pos]) = key
    THEN FracAdd(<<weight[1], weight[2] * (rrf_k + (pos - 1))>>,
                 RankSum(results, key, pos + 1, weight))
    ELSE RankSum(results, key, pos + 1, weight)

\* The keys of a list in the order a dict first gets them.
RECURSIVE KeysOf(_, _)
KeysOf(results, seen) ==
    IF results = <<>>
    THEN <<>>
    ELSE IF merge_key(Head(results)) \in seen
    THEN KeysOf(Tail(results), seen)
    ELSE <<merge_key(Head(results))>>
            \o KeysOf(Tail(results), seen \cup {merge_key(Head(results))})

\* MultiLevelSearch._merge_results
merge_results(symbols_, semantic_, limit) ==
    LET keys == KeysOf(symbols_ \o semantic_, {})
        rrf_scores ==
            [key \in Range(keys) |->
                FracAdd(RankSum(symbols_, key, 1, SymbolBoost),
                        RankSum(semantic_, key, 1, NoBoost))]
        \* all_results: the last result of symbols with the key, else the
        \* first of semantic
        all_results ==
            [key \in Range(keys) |->
                LET sy == {j \in 1..Len(symbols_) :
                              merge_key(symbols_[j]) = key}
                    se == {j \in 1..Len(semantic_) :
                              merge_key(semantic_[j]) = key}
                IN  IF sy # {}
                    THEN symbols_[CHOOSE j \in sy : \A x \in sy : x <= j]
                    ELSE semantic_[CHOOSE j \in se : \A x \in se : j <= x]]
        \* sorted(..., reverse=True): by the number of keys of greater
        \* score, equal scores in the order of the dict
        sorted_keys ==
            StableSort(keys,
                       [key \in Range(keys) |->
                           Cardinality({other \in Range(keys) :
                               FracLess(rrf_scores[key],
                                        rrf_scores[other])})])
        cut == IF Len(sorted_keys) < limit THEN Len(sorted_keys) ELSE limit
    IN  [j \in 1..cut |->
            [all_results[sorted_keys[j]] EXCEPT
                !.score = rrf_scores[sorted_keys[j]]]]

\* The rankings _merge_results is called with: the two rankings
\* [B,A,C,D,E] and [A,B,E,F,G], either of them first, and every pair of
\* rankings of up to MaxHits results out of three.
DenseRanking ==
    <<Found_("B"), Found_("A"), Found_("C"), Found_("D"), Found_("E")>>
SparseRanking ==
    <<Found_("A"), Found_("B"), Found_("E"), Found_("F"), Found_("G")>>
Rankings ==
    {r \in UNION {[1..n -> {Found_("A"), Found_("B"), Found_("C")}] :
                     n \in 0..MaxHits} :
        \A j, m \in 1..Len(r) : j # m => r[j] # r[m]}
MergeLimits == {2, 10}
MergeInputs ==
    {[op |-> "rankings", symbols |-> pair[1], semantic |-> pair[2],
      limit |-> limit] :
        pair \in (Rankings \X Rankings)
                    \cup {<<DenseRanking, SparseRanking>>,
                          <<SparseRanking, DenseRanking>>},
        limit \in MergeLimits}

\* MultiLevelSearch(engine)._merge_results(symbols, semantic, limit)
Merge ==
    /\ call.op = "rankings"
    /\ call' = [op |-> "merge",
                symbols |-> call.symbols,
                semantic |-> call.semantic,
                limit |-> call.limit,
                results |-> merge_results(call.symbols, call.semantic,
                                          call.limit)]
    /\ UNCHANGED <<head, work, stateFile, semantic, symbols, procs, cpu,
                   edited, prevFailed, nPasses, nEdits, watcher>>

\* ------------------------------------------------------------ ASTChunker

\* A line of source text, as far as the chunker reads it: whether it
\* holds a triple quote, is blank, or is a comment; the number of its
\* words (len(line.split())) and of its characters.
Line(kind, words, chars) == [kind |-> kind, words |-> words, chars |-> chars]

\* len("\n".join(lines))
RECURSIVE JoinedLen(_)
JoinedLen(lines) ==
    IF lines = <<>>
    THEN 0
    ELSE Head(lines).chars + (IF Len(lines) > 1 THEN 1 ELSE 0)
            + JoinedLen(Tail(lines))

MAX_CHUNK_TOKENS == 512
OVERLAP_LINES == 3

\* The tokens of a block at which _split_large_function begins the next.
BlockTokens == 400

\* ASTChunker._estimate_tokens; a text is the list of its lines.
estimate_tokens(text) == JoinedLen(text) \div 4

\* CodeChunk(...), as the chunker builds it, id not yet computed.
CodeChunk(file_path, chunk_type, start_line, end_line, content, symbol_name, parent_symbol) ==
    [id |-> <<>>, file_path |-> file_path, chunk_type |-> chunk_type,
     start_line |-> start_line, end_line |-> end_line, content |-> content,
     symbol_name |-> symbol_name, parent_symbol |-> parent_symbol,
     tokens_estimate |-> 0, calls |-> <<>>]

\* The first loop of _split_large_function from line i (counted from 0)
\* on: header_lines and body_start_idx when it ends.
RECURSIVE HeaderScan(_, _, _)
HeaderScan(lines, i, in_docstring) ==
    IF i >= Len(lines)
    THEN [header_lines |-> lines, body_start_idx |-> 0]
    ELSE LET line == lines[i + 1]
         IN  IF line.kind = "quotes"
             THEN IF in_docstring
                  THEN [header_lines |-> SubSeq(lines, 1, i + 1),
                        body_start_idx |-> i + 1]
                  ELSE HeaderScan(lines, i + 1, TRUE)
             ELSE IF i = 0
             THEN HeaderScan(lines, i + 1, in_docstring)
             ELSE IF ~in_docstring /\ line.kind \notin {"blank", "comment"}
             THEN [header_lines |-> SubSeq(lines, 1, i),
                   body_start_idx |-> i]
             ELSE HeaderScan(lines, i + 1, in_docstring)

\* sum(len(l.split()) + 1 for l in lines)
RECURSIVE LineTokens(_)
LineTokens(lines) ==
    IF lines = <<>>
    THEN 0
    ELSE Head(lines).words + 1 + LineTokens(Tail(lines))

\* The line f"# Part of {func_name}" that begins the content of a block.
PartOf(func_name) == [kind |-> "comment", words |-> 4, chars |-> 11, of |-> func_name]

\* The last OVERLAP_LINES lines of a block: current_block[-3:].
Overlap(current_block) ==
    SubSeq(current_block,
           IF Len(current_block) > OVERLAP_LINES
           THEN Len(current_block) - OVERLAP_LINES + 1 ELSE 1,
           Len(current_block))

\* The Block chunk of the lines gathered.
Block(fn, st, start_line, end_line) ==
    CodeChunk(fn.file_path, "block", start_line, end_line,
              <<PartOf(fn.func_name)>> \o st.current_block,
              <<fn.func_name, "_block_", st.block_idx>>, fn.func_name)

\* The turn of the second loop as it would be did it begin the next
\* block empty.
SplitStepWithoutOverlap(st, fn, i, line) ==
    LET line_tokens == line.words + 1
        block_start == fn.start_line + fn.body_start_idx + i
                          - Len(st.current_block)
    IN  IF st.current_tokens + line_tokens > BlockTokens
           /\ st.current_block # <<>>
        THEN [chunks |-> Append(st.chunks,
                                Block(fn, st, block_start,
                                      block_start + Len(st.current_block))),
              current_block |-> <<line>>,
              current_tokens |-> line_tokens,
              block_idx |-> st.block_idx + 1]
        ELSE [st EXCEPT !.current_block = Append(@, line),
                        !.current_tokens = @ + line_tokens]

\* One turn of the second loop of _split_large_function, for line i
\* (counted from 0) of the body.
SplitStep(st, fn, i, line) ==
    LET line_tokens == line.words + 1
        block_start == fn.start_line + fn.body_start_idx + i
                          - Len(st.current_block)
    IN  IF st.current_tokens + line_tokens > BlockTokens
           /\ st.current_block # <<>>
        THEN [chunks |-> Append(st.chunks,
                                Block(fn, st, block_start,
                                      block_start + Len(st.current_block))),
              current_block |-> Append(Overlap(st.current_block), line),
              current_tokens |->
                  LineTokens(Overlap(st.current_block)) + line_tokens,
              block_idx |-> st.block_idx + 1]
        ELSE [st EXCEPT !.current_block = Append(@, line),
                        !.current_tokens = @ + line_tokens]

RECURSIVE SplitLoop(_, _, _, _)
SplitLoop(st, fn, body_lines, i) ==
    IF i >= Len(body_lines)
    THEN st
    ELSE SplitLoop(SplitStep(st, fn, i, body_lines[i + 1]), fn,
                   body_lines, i + 1)

\* ASTChunker._split_large_function for the function node of the given
\* lines (func_content.split("\n")), name and first and last line.
split_large_function(file_path, lines, start_line, end_line, func_name) ==
    LET scan == HeaderScan(lines, 0, FALSE)
        fn == [file_path |-> file_path, func_name |-> func_name,
               start_line |-> start_line,
               body_start_idx |-> scan.body_start_idx]
        header == CodeChunk(file_path, "function", start_line,
                            start_line + Len(scan.header_lines),
                            scan.header_lines, func_name, "")
        body_lines == SubSeq(lines, scan.body_start_idx + 1, Len(lines))
        st == SplitLoop([chunks |-> <<header>>, current_block |-> <<>>,
                         current_tokens |-> 0, block_idx |-> 0],
                        fn, body_lines, 0)
    IN  IF st.current_block # <<>>
        THEN Append(st.chunks,
                    Block(fn, st, end_line - Len(st.current_block),
                          end_line))
        ELSE st.chunks

\* The functions _split_large_function is called for: the def line, a
\* header (none, a comment, a docstring of two lines, a docstring of one
\* line) and up to MaxBody lines of code, short, of many words, or of one
\* long word; together of more than MAX_CHUNK_TOKENS tokens.
DefLine == Line("def", 2, 9)
Headers ==
    {<<>>, <<Line("comment", 2, 6)>>,
     <<Line("quotes", 2, 8), Line("quotes", 1, 3)>>,
     <<Line("quotes", 1, 9)>>}
CodeLines == {Line("code", 5, 40), Line("code", 150, 900), Line("code", 1, 3000)}
LargeFunctions ==
    {lines \in {<<DefLine>> \o h \o b :
                   h \in Headers,
                   b \in UNION {[1..n -> CodeLines] : n \in 0..MaxBody}} :
        estimate_tokens(lines) > MAX_CHUNK_TOKENS}
SplitInputs ==
    {[op |-> "function", lines |-> lines, start_line |-> first] :
        lines \in LargeFunctions, first \in {0, 7}}

\* ASTChunker._split_large_function(file_path, node, content, func_name)
SplitLargeFunction ==
    /\ call.op = "function"
    /\ call' = [op |-> "split",
                lines |-> call.lines,
                start_line |-> call.start_line,
                scan |-> HeaderScan(call.lines, 0, FALSE),
                chunks |-> split_large_function(
                               "a.py", call.lines, call.start_line,
                               call.start_line + Len(call.lines) - 1, "f")]
    /\ UNCHANGED <<head, work, stateFile, semantic, symbols, procs, cpu,
                   edited, prevFailed, nPasses, nEdits, watcher>>

\* ------------------------------------------------ ASTChunker.chunk_file

\* A node of the syntax tree: its type, its name (the text of its
\* identifier), its first and last line (start_point[0], end_point[0]),
\* the names it calls, and its children.  Nodes begin and end with their
\* lines, so content[node.start_byte:node.end_byte] is the lines of the
\* node.
NodeText(file, node) == SubSeq(file.lines, node.first + 1, node.last + 1)

\* ASTChunker._find_nodes: the node and its descendants of the type, in
\* the order of the recursion.
RECURSIVE find_nodes(_, _)
RECURSIVE FindAmong(_, _)
find_nodes(node, node_type) ==
    (IF node.type = node_type THEN <<node>> ELSE <<>>)
        \o FindAmong(node.children, node_type)
FindAmong(children, node_type) ==
    IF children = <<>>
    THEN <<>>
    ELSE find_nodes(Head(children), node_type)
            \o FindAmong(Tail(children), node_type)

\* The names of the nodes of a list.
NamesOf(nodes) == [j \in 1..Len(nodes) |-> nodes[j].name]

\* ASTChunker._create_file_chunk; the description is one line that holds
\* what _generate_file_description writes: the path, the imports, the
\* classes with their methods, the functions.
create_file_chunk(file) ==
    LET top == file.root.children
        classes == SelectSeq(top, LAMBDA n : n.type = "class_definition")
        functions == SelectSeq(top, LAMBDA n : n.type = "function_definition")
        imports == SelectSeq(top, LAMBDA n : n.type = "import_statement")
        methods == [j \in 1..Len(classes) |->
                       NamesOf(find_nodes(classes[j], "function_definition"))]
        names == Len(imports) + Len(classes) + Len(functions)
        description ==
            [kind |-> "description", words |-> 4 + names,
             chars |-> 20 + 10 * names,
             of |-> <<file.path, NamesOf(imports), NamesOf(classes), methods,
                      NamesOf(functions)>>]
    IN  CodeChunk(file.path, "file", 0, Len(file.lines) - 1, <<description>>,
                  "", "")

\* The loop of _extract_module_chunk: the docstring and the imports that
\* come before the first definition.
RECURSIVE ModuleParts(_)
ModuleParts(children) ==
    IF children = <<>>
       \/ Head(children).type \in {"function_definition", "class_definition"}
    THEN <<>>
    ELSE (IF Head(children).type \in {"import_statement",
                                      "import_from_statement", "docstring"}
          THEN <<Head(children)>> ELSE <<>>)
            \o ModuleParts(Tail(children))

RECURSIVE TextOfAll(_, _)
TextOfAll(file, nodes) ==
    IF nodes = <<>>
    THEN <<>>
    ELSE NodeText(file, Head(nodes)) \o TextOfAll(file, Tail(nodes))

\* ASTChunker._extract_module_chunk: a list of no or one chunk.
extract_module_chunk(file) ==
    LET parts == ModuleParts(file.root.children)
    IN  IF parts = <<>>
        THEN <<>>
        ELSE <<CodeChunk(file.path, "module", 0, parts[Len(parts)].last,
                         TextOfAll(file, parts), "", "")>>

\* str.rstrip() of lines: without the blank lines at the end.
RECURSIVE rstrip(_)
rstrip(lines) ==
    IF lines # <<>> /\ lines[Len(lines)].kind = "blank"
    THEN rstrip(SubSeq(lines, 1, Len(lines) - 1))
    ELSE lines

\* ASTChunker._get_class_header
get_class_header(file, node) ==
    LET methods == find_nodes(node, "function_definition")
    IN  IF methods # <<>>
        THEN rstrip(SubSeq(file.lines, node.first + 1, methods[1].first))
        ELSE NodeText(file, node)

\* The Method chunks of _extract_classes for a class too large.
MethodChunks(file, node) ==
    LET methods == find_nodes(node, "function_definition")
    IN  [j \in 1..Len(methods) |->
            CodeChunk(file.path, "method", methods[j].first, methods[j].last,
                      NodeText(file, methods[j]), methods[j].name, node.name)]

\* The chunks of a class as they would be did the header chunk hold the
\* whole class.
ClassChunksWholeHeader(file, node) ==
    <<CodeChunk(file.path, "class", node.first, node.last,
                NodeText(file, node), node.name, "")>>
        \o (IF estimate_tokens(NodeText(file, node)) <= MAX_CHUNK_TOKENS
            THEN <<>> ELSE MethodChunks(file, node))

\* One turn of the loop of _extract_classes: the chunks of a class.
ClassChunks(file, node) ==
    IF estimate_tokens(NodeText(file, node)) <= MAX_CHUNK_TOKENS
    THEN <<CodeChunk(file.path, "class", node.first, node.last,
                     NodeText(file, node), node.name, "")>>
    ELSE <<CodeChunk(file.path, "class", node.first,
                     node.first + Len(get_class_header(file, node)) - 1,
                     get_class_header(file, node), node.name, "")>>
            \o MethodChunks(file, node)

RECURSIVE ClassesChunks(_, _)
ClassesChunks(file, nodes) ==
    IF nodes = <<>>
    THEN <<>>
    ELSE ClassChunks(file, Head(nodes)) \o ClassesChunks(file, Tail(nodes))

\* ASTChunker._extract_classes
extract_classes(file) ==
    ClassesChunks(file, find_nodes(file.root, "class_definition"))

\* One turn of the loop of _extract_functions; as_list[S] is list(S) of
\* the set S of the names called.
FunctionChunks(file, node, as_list) ==
    IF node.type # "function_definition"
    THEN <<>>
    ELSE IF estimate_tokens(NodeText(file, node)) > MAX_CHUNK_TOKENS
    THEN split_large_function(file.path, NodeText(file, node), node.first,
                              node.last, node.name)
    ELSE <<[CodeChunk(file.path, "function", node.first, node.last,
                      NodeText(file, node), node.name, "")
               EXCEPT !.calls = as_list[node.calls]]>>

RECURSIVE FunctionsChunks(_, _, _)
FunctionsChunks(file, nodes, as_list) ==
    IF nodes = <<>>
    THEN <<>>
    ELSE FunctionChunks(file, Head(nodes), as_list)
            \o FunctionsChunks(file, Tail(nodes), as_list)

\* ASTChunker._extract_functions
extract_functions(file, as_list) ==
    FunctionsChunks(file, file.root.children, as_list)

\* ASTChunker.chunk_file for a file with its syntax tree.
chunk_file_(file, as_list) ==
    LET chunks == <<create_file_chunk(file)>>
                     \o extract_module_chunk(file)
                     \o extract_classes(file)
                     \o extract_functions(file, as_list)
    IN  [j \in 1..Len(chunks) |->
            [chunks[j] EXCEPT
                !.id = compute_id(chunks[j], chunks[j].file_path),
                !.tokens_estimate = estimate_tokens(chunks[j].content)]]

\* The files chunk_file is called for.  An item is a definition or
\* statement with its lines and the items within it, each `at` lines
\* after the first line of the item around it.
Item(type, name, lines, calls, children) ==
    [type |-> type, name |-> name, lines |-> lines, calls |-> calls,
     children |-> children, at |-> 0]

RECURSIVE AllLines(_)
AllLines(items) ==
    IF items = <<>> THEN <<>> ELSE Head(items).lines \o AllLines(Tail(items))

\* The items one after the other from line `at` on.
RECURSIVE Stack(_, _)
Stack(items, at) ==
    IF items = <<>>
    THEN <<>>
    ELSE <<[Head(items) EXCEPT !.at = at]>>
            \o Stack(Tail(items), at + Len(Head(items).lines))

\* The node of the syntax tree for an item within an item that begins at
\* line `base`.
RECURSIVE Place(_, _)
Place(item, base) ==
    [type |-> item.type, name |-> item.name, first |-> base + item.at,
     last |-> base + item.at + Len(item.lines) - 1, calls |-> item.calls,
     children |-> [j \in 1..Len(item.children) |->
                      Place(item.children[j], base + item.at)]]

SmallMethod(name) ==
    Item("function_definition", name, <<DefLine, Line("code", 5, 40)>>, {},
         <<>>)
BigMethod ==
    Item("function_definition", "M",
         <<DefLine, Line("code", 150, 900), Line("code", 150, 900),
           Line("code", 1, 3000)>>, {}, <<>>)
NestingMethod ==
    Item("function_definition", "n",
         <<DefLine, DefLine, Line("code", 5, 40), Line("code", 5, 40)>>, {},
         <<[SmallMethod("h") EXCEPT !.at = 1]>>)
MethodKinds == {SmallMethod("m"), BigMethod, NestingMethod}
ClassLine == Line("class", 2, 8)
ClassItem(name, extra, methods) ==
    Item("class_definition", name,
         <<ClassLine>> \o extra \o AllLines(methods), {},
         Stack(methods, 1 + Len(extra)))
Extras == {<<>>, <<Line("code", 1, 3000), Line("blank", 0, 0)>>}
TenMethods ==
    ClassItem("C", <<Line("quotes", 3, 20)>>,
              [j \in 1..10 |->
                  Item("function_definition", <<"m", j>>,
                       <<DefLine, Line("code", 150, 1190)>>, {}, <<>>)])
SmallFunction ==
    Item("function_definition", "f", <<DefLine, Line("code", 5, 40)>>,
         {"g", "h"}, <<>>)
LargeFunction ==
    Item("function_definition", "g",
         <<DefLine>> \o [j \in 1..5 |-> Line("code", 150, 900)], {}, <<>>)
ImportItem == Item("import_statement", "os", <<Line("code", 2, 9)>>, {}, <<>>)
TopItems ==
    {ClassItem(name, extra, methods) :
        name \in {"C", "D"}, extra \in Extras,
        methods \in UNION {[1..n -> MethodKinds] : n \in 0..MaxMethods}}
    \cup {SmallFunction, LargeFunction}
FileOf(imports, items) ==
    LET top == Stack((IF imports THEN <<ImportItem>> ELSE <<>>) \o items, 0)
    IN  [path |-> "a.py", lines |-> AllLines(top),
         root |-> [type |-> "module", name |-> "", first |-> 0,
                   last |-> Len(AllLines(top)) - 1, calls |-> {},
                   children |-> [j \in 1..Len(top) |-> Place(top[j], 0)]]]
Files ==
    {FileOf(imports, items) :
        imports \in BOOLEAN,
        items \in UNION {[1..n -> TopItems] : n \in 0..MaxItems}}
    \cup {FileOf(TRUE, <<TenMethods>>)}

\* list(set(calls)): the names in an order that differs from call to
\* call.
AsLists ==
    {[S \in {{}, {"g", "h"}} |-> IF S = {} THEN <<>> ELSE order] :
        order \in {<<"g", "h">>, <<"h", "g">>}}

ChunkInputs == {[op |-> "file", file |-> file] : file \in Files}

\* ASTChunker().chunk_file(file_path)
ChunkFile ==
    /\ call.op = "file"
    /\ \E as_list \in AsLists :
          call' = [op |-> "chunked", file |-> call.file,
                   chunks |-> chunk_file_(call.file, as_list)]
    /\ UNCHANGED <<head, work, stateFile, semantic, symbols, procs, cpu,
                   edited, prevFailed, nPasses, nEdits, watcher>>

\* chunk_file(file_path) once more, the file as it was.
ChunkFileAgain ==
    /\ call.op = "chunked"
    /\ \E as_list \in AsLists :
          call' = [op |-> "chunked again", file |-> call.file,
                   chunks |-> call.chunks,
                   again |-> chunk_file_(call.file, as_list)]
    /\ UNCHANGED <<head, work, stateFile, semantic, symbols, procs, cpu,
                   edited, prevFailed, nPasses, nEdits, watcher>>

\* ----------------------------------------- IncrementalIndexer._batch_embed

\* The embedder: a function of the text.
embedder(text) == <<"embedding", text>>

\* The slice texts[i:i + batch_size] as the places of its texts (counted
\* from 1).
BatchOf(texts, i, batch_size) ==
    {k \in 1..Len(texts) : k > i /\ k <= i + batch_size}

\* The places of a set in rising order.
RECURSIVE Ascending(_)
Ascending(places) ==
    IF places = {}
    THEN <<>>
    ELSE LET least == CHOOSE k \in places : \A m \in places : k <= m
         IN  <<least>> \o Ascending(places \ {least})

\* asyncio.gather as it would be did it hand the results back in the order
\* the calls completed.
GatherAsCompleted(texts, batch, order) ==
    [j \in 1..Len(order) |-> embedder(texts[order[j]])]

\* asyncio.gather over the calls of a batch, all of them returned: the
\* results in the order of the awaitables, whatever the order the calls
\* completed in.
gather(texts, batch, order) ==
    LET places == Ascending(batch)
    IN  [j \in 1..Len(places) |-> embedder(texts[places[j]])]

Texts == {"a", "b"}
BatchSizes == {1, 2, 3}
EmbedInputs ==
    {[op |-> "embed", texts |-> texts, batch_size |-> batch_size, i |-> 0,
      in_flight |-> {}, completed |-> {}, failed |-> {}, order |-> <<>>,
      embeddings |-> <<>>] :
        texts \in UNION {[1..n -> Texts] : n \in 0..MaxTexts},
        batch_size \in BatchSizes}

\* _batch_embed at the head of its loop with texts left: the calls of the
\* next batch are handed to threads and the coroutine awaits the gather.
StartBatch ==
    /\ call.op = "embed"
    /\ call.i < Len(call.texts)
    /\ call' = [call EXCEPT
                   !.op = "gather",
                   !.in_flight = @ \cup BatchOf(call.texts, call.i,
                                                call.batch_size),
                   !.order = <<>>]
    /\ UNCHANGED <<head, work, stateFile, semantic, symbols, procs, cpu,
                   edited, prevFailed, nPasses, nEdits, watcher>>

\* A thread's call of the embedder returns.
EmbedderReturns ==
    /\ call.op \in {"gather", "raised"}
    /\ \E k \in call.in_flight :
          call' = [call EXCEPT !.in_flight = @ \ {k},
                               !.completed = @ \cup {k},
                               !.order = Append(@, k)]
    /\ UNCHANGED <<head, work, stateFile, semantic, symbols, procs, cpu,
                   edited, prevFailed, nPasses, nEdits, watcher>>

\* A thread's call of the embedder raises: the gather raises with the
\* first exception, and _batch_embed with it; the other threads run on.
EmbedderRaises ==
    /\ call.op \in {"gather", "raised"}
    /\ \E k \in call.in_flight :
          call' = [call EXCEPT !.in_flight = @ \ {k},
                               !.failed = @ \cup {k},
                               !.op = "raised"]
    /\ UNCHANGED <<head, work, stateFile, semantic, symbols, procs, cpu,
                   edited, prevFailed, nPasses, nEdits, watcher>>

\* Every call of the batch returned: the gather returns, the results are
\* appended and the loop goes on with the next slice.
GatherReturns ==
    /\ call.op = "gather"
    /\ call.in_flight = {}
    /\ call' = [call EXCEPT
                   !.op = "embed",
                   !.embeddings =
                       @ \o gather(call.texts,
                                   BatchOf(call.texts, call.i,
                                           call.batch_size),
                                   call.order),
                   !.i = @ + call.batch_size]
    /\ UNCHANGED <<head, work, stateFile, semantic, symbols, procs, cpu,
                   edited, prevFailed, nPasses, nEdits, watcher>>

\* The loop is over: return embeddings.
BatchEmbedReturns ==
    /\ call.op = "embed"
    /\ call.i >= Len(call.texts)
    /\ call' = [call EXCEPT !.op = "returned"]
    /\ UNCHANGED <<head, work, stateFile, semantic, symbols, procs, cpu,
                   edited, prevFailed, nPasses, nEdits, watcher>>

\* -------------------------------------------------- ExecutionScheduler

\* task_parser.Task(id, ..., depends_on): a new task is PENDING, without result or
\* error (None is "none").  depends_on is kept as the set of its ids.
PlanTask(id, depends_on, priority) ==
    [id |-> id, depends_on |-> depends_on, priority |-> priority,
     status |-> "pending", result |-> "none", error |-> "none"]

\* Task.is_ready
is_ready(task, completed) == task.depends_on \subseteq completed

\* The ids of a list of tasks.
IdsOf(tasks) == [j \in 1..Len(tasks) |-> tasks[j].id]

\* graph.tasks is a dict of the tasks by id, here the list of its values
\* in the order of insertion; graph.tasks[id]:
TaskOf(graph, id) == graph[CHOOSE j \in 1..Len(graph) : graph[j].id = id]

\* graph.tasks[id] replaced by the task as it is now.
WithTask(graph, task) ==
    [j \in 1..Len(graph) |-> IF graph[j].id = task.id THEN task ELSE graph[j]]

\* The ExecutionResult of _execute_with_retry for a task.
ExecutionResult(task_id, success) ==
    [task_id |-> task_id, success |-> success,
     output |-> IF success THEN "output" ELSE "",
     error |-> IF success THEN "none" ELSE "error"]

\* execute_task up to the call of _execute_with_retry.
execute_task_begin(task) == [task EXCEPT !.status = "in_progress"]

\* execute_task from the return of _execute_with_retry on.
execute_task_end(task, result) ==
    [task EXCEPT
        !.result = IF result.success THEN result.output ELSE "none",
        !.error = result.error,
        !.status = IF result.success THEN "completed" ELSE "failed"]

\* The ready list of execute_graph_sync as it would be did it not look at
\* depends_on.
SyncReadyIgnoresDependencies(graph, completed) ==
    LET Open(task) == task.id \notin completed
    IN  IdsOf(SelectSeq(graph, Open))

\* ready_tasks of execute_graph_sync: the tasks not completed whose
\* dependencies are all completed, in the order of the dict.
sync_ready(graph, completed) ==
    LET Ready(task) == task.id \notin completed /\ is_ready(task, completed)
    IN  IdsOf(SelectSeq(graph, Ready))

\* The loop of execute_graph_sync as it would be did it run one batch
\* only.
SyncMoreOnce(graph, completed) == completed = {} /\ Len(graph) > 0

\* The condition of the loop of execute_graph_sync.
sync_more(graph, completed) == Cardinality(completed) < Len(graph)

\* The task graphs: up to MaxTasks tasks "a", "b", "c" in the order of
\* their insertion, each depending on up to two ids; "x" is the id of no
\* task.
TaskIds == <<"a", "b", "c", "d">>
DependsOn ==
    {S \in SUBSET ({TaskIds[j] : j \in 1..MaxTasks} \cup {"x"}) :
        Cardinality(S) <= 2}
MEDIUM_PRIORITY == 3
Graphs ==
    UNION {{[j \in 1..n |-> PlanTask(TaskIds[j], deps[j], MEDIUM_PRIORITY)] :
               deps \in [1..n -> DependsOn]} : n \in 0..MaxTasks}

\* The locals of execute_graph_sync at its start; events records the
\* starts and ends of the executions in their order.
SyncInputs ==
    {[op |-> "loop", graph |-> graph, completed |-> {},
      results |-> EmptyDict, ready |-> <<>>, pos |-> 1, events |-> <<>>] :
        graph \in Graphs}

\* execute_graph_sync at the head of its loop: the ready tasks are taken,
\* or the function returns when all are completed or none is ready.
SyncLoop ==
    /\ call.op = "loop"
    /\ LET ready == sync_ready(call.graph, call.completed)
       IN  call' = IF sync_more(call.graph, call.completed) /\ ready # <<>>
                   THEN [call EXCEPT !.op = "batch", !.ready = ready,
                                     !.pos = 1]
                   ELSE [call EXCEPT !.op = "returned"]
    /\ UNCHANGED <<head, work, stateFile, semantic, symbols, procs, cpu,
                   edited, prevFailed, nPasses, nEdits, watcher>>

\* The loop over ready_tasks: execute_task is called for the next task,
\* or the loop is over.
SyncBegin ==
    /\ call.op = "batch"
    /\ call' = IF call.pos > Len(call.ready)
               THEN [call EXCEPT !.op = "loop"]
               ELSE LET id == call.ready[call.pos]
                    IN  [call EXCEPT
                            !.op = "running",
                            !.graph = WithTask(@, execute_task_begin(
                                                      TaskOf(@, id))),
                            !.events = Append(@, <<"start", id>>)]
    /\ UNCHANGED <<head, work, stateFile, semantic, symbols, procs, cpu,
                   edited, prevFailed, nPasses, nEdits, watcher>>

\* _execute_with_retry returns; execute_task sets the task and returns the
\* result, which is stored, and the task is completed.
SyncEnd(success) ==
    /\ call.op = "running"
    /\ LET id == call.ready[call.pos]
           result == ExecutionResult(id, success)
       IN  call' = [call EXCEPT
                       !.op = "batch",
                       !.graph = WithTask(@, execute_task_end(TaskOf(@, id),
                                                              result)),
                       !.results = Put(@, id, result),
                       !.completed = @ \cup {id},
                       !.pos = @ + 1,
                       !.events = Append(@, <<"end", id>>)]
    /\ UNCHANGED <<head, work, stateFile, semantic, symbols, procs, cpu,
                   edited, prevFailed, nPasses, nEdits, watcher>>

\* ----------------------------- ExecutionScheduler.execute_graph_async

HIGH_PRIORITY == 2

\* TaskGraph.get_ready_tasks: the PENDING tasks whose dependencies are
\* all completed, sorted by priority.value.
get_ready_tasks(graph, completed) ==
    LET Ready(task) == task.status = "pending" /\ is_ready(task, completed)
        ready == SelectSeq(graph, Ready)
    IN  IdsOf(StableSort(ready, [t \in Range(ready) |-> t.priority]))

\* ready_tasks[:self.max_parallel]
batch_of(ready_tasks, max_parallel) ==
    SubSeq(ready_tasks, 1, IF Len(ready_tasks) < max_parallel
                           THEN Len(ready_tasks) ELSE max_parallel)

\* The task graphs of n tasks of the asynchronous runs: those of Graphs,
\* the tasks being of HIGH or MEDIUM priority.
AsyncGraphs(n) ==
    {[j \in 1..n |-> PlanTask(TaskIds[j], deps[j], prio[j])] :
        deps \in [1..n -> DependsOn],
        prio \in [1..n -> {HIGH_PRIORITY, MEDIUM_PRIORITY}]}

\* The scheduler and the locals of execute_graph_async at its start, for
\* a graph of n tasks.
AsyncInputs(n) ==
    {[op |-> "while", mode |-> mode, max_parallel |-> max_parallel,
      graph |-> graph, completed |-> {}, results |-> EmptyDict,
      batch |-> <<>>, pos |-> 1, events |-> <<>>] :
        mode \in {"parallel", "sequential"},
        max_parallel \in 1..MaxTasks,
        graph \in AsyncGraphs(n)}

\* execute_graph_async at the head of its loop: it returns when all tasks
\* are completed or none is ready, else the batch is taken and goes the
\* parallel or the sequential way.
AsyncLoop ==
    /\ call.op = "while"
    /\ LET ready_tasks == get_ready_tasks(call.graph, call.completed)
           batch == batch_of(ready_tasks, call.max_parallel)
       IN  call' =
             IF Cardinality(call.completed) < Len(call.graph)
                /\ ready_tasks # <<>>
             THEN [call EXCEPT
                      !.op = IF call.mode = "parallel" /\ Len(batch) > 1
                             THEN "parallel" ELSE "sequential",
                      !.batch = batch, !.pos = 1]
             ELSE [call EXCEPT !.op = "returned"]
    /\ UNCHANGED <<head, work, stateFile, semantic, symbols, procs, cpu,
                   edited, prevFailed, nPasses, nEdits, watcher>>

\* The parallel way: _execute_with_retry ran in the executor for the next
\* task of the batch and its result is awaited; the task itself is left
\* as it is.
AsyncParallel(success) ==
    /\ call.op = "parallel"
    /\ call.pos <= Len(call.batch)
    /\ Len(call.events) < 2 * MaxRuns
    /\ LET id == call.batch[call.pos]
       IN  call' = [call EXCEPT
                       !.results = Put(@, id, ExecutionResult(id, success)),
                       !.completed = @ \cup {id},
                       !.pos = @ + 1,
                       !.events = @ \o << <<"start", id>>, <<"end", id>> >>]
    /\ UNCHANGED <<head, work, stateFile, semantic, symbols, procs, cpu,
                   edited, prevFailed, nPasses, nEdits, watcher>>

\* The sequential way: execute_task for the next task of the batch.
AsyncSequential(success) ==
    /\ call.op = "sequential"
    /\ call.pos <= Len(call.batch)
    /\ Len(call.events) < 2 * MaxRuns
    /\ LET id == call.batch[call.pos]
           result == ExecutionResult(id, success)
       IN  call' = [call EXCEPT
                       !.graph = WithTask(@, execute_task_end(
                                     execute_task_begin(TaskOf(@, id)),
                                     result)),
                       !.results = Put(@, id, result),
                       !.completed = @ \cup {id},
                       !.pos = @ + 1,
                       !.events = @ \o << <<"start", id>>, <<"end", id>> >>]
    /\ UNCHANGED <<head, work, stateFile, semantic, symbols, procs, cpu,
                   edited, prevFailed, nPasses, nEdits, watcher>>

\* The batch is done: back to the head of the loop.
AsyncBatchDone ==
    /\ call.op \in {"parallel", "sequential"}
    /\ call.pos > Len(call.batch)
    /\ call' = [call EXCEPT !.op = "while"]
    /\ UNCHANGED <<head, work, stateFile, semantic, symbols, procs, cpu,
                   edited, prevFailed, nPasses, nEdits, watcher>>

\* ------------------------------------------- QualityGateOrchestrator

DEFAULT_GATE_ORDER == <<"linter", "security", "tests", "coverage">>

\* QualityGate.name of the gate registered under a key by
\* _init_default_gates.
GateName(key) ==
    CASE key = "linter" -> "Linter"
      [] key = "security" -> "Security Scanner"
      [] key = "tests" -> "Test Runner"
      [] key = "coverage" -> "Coverage Checker"

\* What a call of _run_gate can do: the check passes or fails or raises,
\* or on_gate_start raises before the check, or on_gate_complete raises
\* after it.
GateOutcomes ==
    {"passed", "failed", "check raises", "start raises", "complete raises"}

\* The exception leaves _run_gate.
Escapes(outcome) == outcome \in {"start raises", "complete raises"}

\* The GateResult _run_gate returns: that of the check, which carries the
\* blocking of its gate, or the one made for a check that raised.
run_gate(key, blocking, outcome) ==
    [gate_name |-> GateName(key), passed |-> outcome = "passed",
     blocking |-> blocking,
     error |-> IF outcome = "check raises" THEN "raised" ELSE "none"]

\* The sequential loop of run as it would be did it never break.
SequentialStepGoesOn(st, outcome) ==
    LET name == st.active[st.pos]
        gate == st.gates[name]
        result == IF Escapes(outcome)
                  THEN [gate_name |-> GateName(name), passed |-> FALSE,
                        blocking |-> gate, error |-> "raised"]
                  ELSE run_gate(name, gate, outcome)
    IN  [st EXCEPT !.ran = Append(@, [name |-> name, outcome |-> outcome]),
                   !.results = Append(@, result),
                   !.error = IF Escapes(outcome) THEN "raised" ELSE @,
                   !.pos = @ + 1]

\* One turn of the sequential loop of run for the gate at pos: the result
\* of _run_gate is appended and a blocking failure stops a fail-fast
\* pipeline; an exception out of _run_gate is made a failed result with
\* the blocking of the gate and stops a fail-fast pipeline.
sequential_step(st, outcome) ==
    LET name == st.active[st.pos]
        gate == st.gates[name]
        result == IF Escapes(outcome)
                  THEN [gate_name |-> GateName(name), passed |-> FALSE,
                        blocking |-> gate, error |-> "raised"]
                  ELSE run_gate(name, gate, outcome)
        stop == IF Escapes(outcome)
                THEN st.fail_fast
                ELSE st.fail_fast /\ ~result.passed /\ result.blocking
    IN  [st EXCEPT !.ran = Append(@, [name |-> name, outcome |-> outcome]),
                   !.results = Append(@, result),
                   !.error = IF Escapes(outcome) THEN "raised" ELSE @,
                   !.stopped_at = IF stop THEN name ELSE @,
                   !.broke = stop,
                   !.pos = @ + 1]

\* The parallel way of run for the gate at pos: asyncio.gather gives the
\* result of _run_gate or its exception, which is made a failed blocking
\* result under the key of the gate.
parallel_step(st, outcome) ==
    LET name == st.active[st.pos]
        result == IF Escapes(outcome)
                  THEN [gate_name |-> name, passed |-> FALSE,
                        blocking |-> TRUE, error |-> "raised"]
                  ELSE run_gate(name, st.gates[name], outcome)
    IN  [st EXCEPT !.ran = Append(@, [name |-> name, outcome |-> outcome]),
                   !.results = Append(@, result),
                   !.pos = @ + 1]

\* The PipelineResult run returns.
PipelineResult(results, error, stopped_at) ==
    LET passed == Cardinality({j \in 1..Len(results) : results[j].passed})
    IN  [passed |-> \A j \in 1..Len(results) :
                       results[j].passed \/ ~results[j].blocking,
         gate_results |-> results,
         total_gates |-> Len(results),
         passed_gates |-> passed,
         failed_gates |-> Len(results) - passed,
         error |-> error,
         stopped_at_gate |-> stopped_at]

\* PipelineResult.blocking_failures and PipelineResult.warnings
blocking_failures(pipeline) ==
    LET Blocks(r) == ~r.passed /\ r.blocking
    IN  SelectSeq(pipeline.gate_results, Blocks)

warnings(pipeline) ==
    LET Warns(r) == ~r.passed /\ ~r.blocking
    IN  SelectSeq(pipeline.gate_results, Warns)

\* gate_order and active_gates of run: the gates asked for, or the default
\* order for None or an empty list, without the names not registered.
active_gates(gates, requested) ==
    LET gate_order == IF requested = <<>> THEN DEFAULT_GATE_ORDER
                      ELSE requested
        Known(name) == name \in DOMAIN gates
    IN  SelectSeq(gate_order, Known)

\* self.gates by the blocking of each gate: the default gates, configured
\* blocking or not, or linter and coverage alone after remove_gate.
Registries ==
    {[key \in {"linter", "security", "tests", "coverage"} |->
         CASE key = "linter" -> bl [] key = "coverage" -> bc
           [] OTHER -> TRUE] : bl \in BOOLEAN, bc \in BOOLEAN}
    \cup {[key \in {"linter", "coverage"} |->
              IF key = "linter" THEN bl ELSE bc] :
             bl \in BOOLEAN, bc \in BOOLEAN}

\* The lists of gates asked for.
Requests ==
    UNION {[1..n -> {"linter", "coverage", "tests"}] : n \in 0..MaxGates}

\* The orchestrator and the locals of run at the start of its loop.
PipelineInputs ==
    {[op |-> "run", fail_fast |-> fail_fast, parallel |-> parallel,
      gates |-> gates, requested |-> requested,
      active |-> active_gates(gates, requested), pos |-> 1,
      ran |-> <<>>, results |-> <<>>, error |-> "none",
      stopped_at |-> "none", broke |-> FALSE] :
        fail_fast \in BOOLEAN, parallel \in BOOLEAN,
        gates \in Registries, requested \in Requests}

\* The gates are run one after the other.
RunSequential(outcome) ==
    /\ call.op = "run"
    /\ ~(call.parallel /\ ~call.fail_fast)
    /\ call.pos <= Len(call.active)
    /\ ~call.broke
    /\ call' = sequential_step(call, outcome)
    /\ UNCHANGED <<head, work, stateFile, semantic, symbols, procs, cpu,
                   edited, prevFailed, nPasses, nEdits, watcher>>

\* The gates are run together and their results gathered in their order.
RunParallel(outcome) ==
    /\ call.op = "run"
    /\ call.parallel /\ ~call.fail_fast
    /\ call.pos <= Len(call.active)
    /\ call' = parallel_step(call, outcome)
    /\ UNCHANGED <<head, work, stateFile, semantic, symbols, procs, cpu,
                   edited, prevFailed, nPasses, nEdits, watcher>>

\* The loop is over or was left: run returns the PipelineResult.
RunReturns ==
    /\ call.op = "run"
    /\ call.pos > Len(call.active) \/ call.broke
    /\ call' = [op |-> "returned", fail_fast |-> call.fail_fast,
                parallel |-> call.parallel, gates |-> call.gates,
                requested |-> call.requested, active |-> call.active,
                ran |-> call.ran,
                result |-> PipelineResult(call.results, call.error,
                                          call.stopped_at)]
    /\ UNCHANGED <<head, work, stateFile, semantic, symbols, procs, cpu,
                   edited, prevFailed, nPasses, nEdits, watcher>>

\* ------------------------------ ExecutionScheduler._execute_with_retry

DefaultMaxRetries == 3

\* AgentRouter.get_agent_for_retry: error_type is given by whether the
\* text holds "error" or "bug".
get_agent_for_retry(failed_agent, names_error) ==
    IF failed_agent = "coder" /\ names_error THEN "debugger"
    ELSE IF failed_agent = "tester" THEN "coder"
    ELSE "architect"

\* The outcomes of an attempt: the LLM answered, or LLMClient.generate
\* reported an error whose text holds "error" or does not.
Outcomes == {"ok", "error text", "other text"}

\* One turn of the loop as it would be did it go on after a success.
RetryStepGoesOn(st, outcome) ==
    [st EXCEPT
        !.attempts = Append(@, [model |-> st.context.model,
                                agent |-> st.context.agent,
                                outcome |-> outcome]),
        !.last_error = IF outcome = "ok" THEN @ ELSE outcome,
        !.attempt = @ + 1]

\* One turn of the loop of _execute_with_retry: _execute_single_task with
\* the context as it is; a success is returned; after the failure of
\* attempt 1 the model of the context becomes the agent's fallback model
\* if the router knows it, after that of attempt 2 the agent becomes the
\* retry agent.
retry_step(st, outcome) ==
    LET tried == [st EXCEPT
                     !.attempts = Append(@, [model |-> st.context.model,
                                             agent |-> st.context.agent,
                                             outcome |-> outcome])]
    IN  IF outcome = "ok"
        THEN [tried EXCEPT !.op = "returned",
                           !.result = [success |-> TRUE,
                                       model_used |-> st.context.model,
                                       agent_used |-> st.context.agent]]
        ELSE [tried EXCEPT
                 !.last_error = outcome,
                 !.context.model =
                     IF st.attempt = 1 /\ st.fallback_known
                     THEN "fallback" ELSE @,
                 !.context.agent =
                     IF st.attempt = 2
                     THEN get_agent_for_retry(st.agent,
                                              outcome = "error text")
                     ELSE @,
                 !.attempt = @ + 1]

\* _execute_with_retry after select_agent and select_model.
RetryInputs ==
    {[op |-> "retry", max_retries |-> max_retries, agent |-> agent,
      fallback_known |-> known,
      context |-> [model |-> "primary", agent |-> agent],
      attempt |-> 0, last_error |-> "none", attempts |-> <<>>,
      result |-> [success |-> FALSE, model_used |-> "", agent_used |-> ""]] :
        max_retries \in 0..MaxRetries,
        agent \in {"coder", "tester", "architect"},
        known \in BOOLEAN}

\* A turn of `for attempt in range(self.max_retries)`.
RetryAttempt ==
    /\ call.op = "retry"
    /\ call.attempt < call.max_retries
    /\ \E outcome \in Outcomes : call' = retry_step(call, outcome)
    /\ UNCHANGED <<head, work, stateFile, semantic, symbols, procs, cpu,
                   edited, prevFailed, nPasses, nEdits, watcher>>

\* The loop is over: the failed result is returned.
RetryExhausted ==
    /\ call.op = "retry"
    /\ call.attempt >= call.max_retries
    /\ call' = [call EXCEPT
                   !.op = "returned",
                   !.result = [success |-> FALSE,
                               model_used |-> call.context.model,
                               agent_used |-> call.context.agent]]
    /\ UNCHANGED <<head, work, stateFile, semantic, symbols, procs, cpu,
                   edited, prevFailed, nPasses, nEdits, watcher>>

\* ---------------------------------------------------------- FileWatcher

\* The clock counts ticks; debounce_ms is the delay of the watcher in
\* ticks.
debounce_ms == 2

\* The paths the file system events name.
Watched == {p \in Paths : Supported(p)}

\* self._task: "none" before the first event, "sleep" in asyncio.sleep
\* until `wake`, "embed" suspended in _batch_embed for the head of
\* `files`, "done" returned.  A cancelled task is replaced by the next.
Task_(pc, wake, files) == [pc |-> pc, wake |-> wake, files |-> files]

\* FileWatcher.__init__, with the clock and the record of the events:
\* per path the time of its last event, the number of its bursts, the
\* number of completed re-indexings, whether an event is still to be
\* answered by a re-indexing, and whether a re-indexing began less than
\* debounce_ms after an event of its path.
IdleWatcher ==
    [pending |-> {}, task |-> Task_("none", 0, <<>>), now |-> 0,
     last_event |-> [p \in Paths |-> -1],
     bursts |-> [p \in Paths |-> 0],
     reindexed |-> [p \in Paths |-> 0],
     stale |-> {}, early |-> FALSE, nEvents |-> 0]

\* list(self._pending_files): the elements of the set in some order.
Orders(S) ==
    {f \in [1..Cardinality(S) -> S] :
        \A j, k \in 1..Cardinality(S) : j # k => f[j] # f[k]}

\* The loop of _process_changes from the file at the head of `files` up to
\* the next suspension: _delete_file_chunks, then _index_file, which
\* returns at once for a file that does not exist and otherwise suspends
\* in _batch_embed.
RECURSIVE WatcherRun(_, _, _, _)
WatcherRun(files, sem, sym, w) ==
    IF files = <<>>
    THEN [semantic |-> sem, symbols |-> sym,
          watcher |-> [w EXCEPT !.task = Task_("done", 0, <<>>)]]
    ELSE LET path == Head(files)
             sem1 == DeleteByPath(sem, path)
             sym1 == DeleteByPath(sym, path)
         IN  IF work[path] = NoFile
             THEN WatcherRun(Tail(files), sem1, sym1,
                             [w EXCEPT !.reindexed[path] = @ + 1,
                                       !.stale = @ \ {path}])
             ELSE [semantic |-> sem1, symbols |-> sym1,
                   watcher |-> [w EXCEPT !.task = Task_("embed", 0, files)]]

WatcherFrame ==
    UNCHANGED <<head, work, stateFile, procs, cpu, edited, prevFailed,
                nPasses, nEdits, call>>

\* FileWatcher.on_file_changed: the path is added to the pending set, the
\* task in flight (asleep or suspended in the embedding) is cancelled and a
\* new one is created.
on_file_changed(file_path) ==
    /\ watcher.nEvents < MaxEvents
    /\ watcher' = [watcher EXCEPT
          !.pending = @ \cup {file_path},
          !.task = Task_("sleep", watcher.now + debounce_ms, <<>>),
          !.last_event[file_path] = watcher.now,
          !.bursts[file_path] =
              IF \/ watcher.last_event[file_path] < 0
                 \/ watcher.now - watcher.last_event[file_path] >= debounce_ms
              THEN @ + 1 ELSE @,
          !.stale = @ \cup {file_path},
          !.nEvents = @ + 1]
    /\ UNCHANGED <<semantic, symbols>>
    /\ WatcherFrame

\* A tick of the clock; a sleep that is over ends before time goes on.
Tick ==
    /\ watcher.now < MaxTime
    /\ ~(watcher.task.pc = "sleep" /\ watcher.task.wake <= watcher.now)
    /\ watcher' = [watcher EXCEPT !.now = @ + 1]
    /\ UNCHANGED <<semantic, symbols>>
    /\ WatcherFrame

\* FileWatcher._process_changes from the end of asyncio.sleep to the first
\* suspension (or to its return).
process_changes ==
    /\ watcher.task.pc = "sleep"
    /\ watcher.now >= watcher.task.wake
    /\ \E files \in Orders(watcher.pending) :
         LET w == [watcher EXCEPT
                      !.pending = {},
                      !.early = @ \/ \E p \in watcher.pending :
                          watcher.now - watcher.last_event[p] < debounce_ms]
             r == WatcherRun(files, semantic, symbols, w)
         IN  /\ watcher' = r.watcher
             /\ semantic' = r.semantic
             /\ symbols' = r.symbols
    /\ WatcherFrame

\* FileWatcher._process_changes resumed when the embedding of the file at
\* the head of its list returned: _index_file stores the points and the
\* loop goes on.
ResumeWatcher ==
    /\ watcher.task.pc = "embed"
    /\ LET path == Head(watcher.task.files)
           points == PointsOf(chunk_file(work[path]), path)
           w == [watcher EXCEPT !.reindexed[path] = @ + 1,
                                !.stale = @ \ {path}]
           r == WatcherRun(Tail(watcher.task.files),
                           Upsert(semantic, points),
                           Upsert(symbols, SymbolPoints(points)), w)
       IN  /\ watcher' = r.watcher
           /\ semantic' = r.semantic
           /\ symbols' = r.symbols
    /\ WatcherFrame

\* --------------------------------------------------------- specifications

InitTree == [p \in Paths |-> IF p = "a.py" THEN 1 ELSE NoFile]

\* Nothing has run; no call of the search or context functions is given.
Quiet ==
    /\ head = InitTree
    /\ work = InitTree
    /\ stateFile = MissingFile
    /\ semantic = {}
    /\ symbols = {}
    /\ procs = [i \in Procs |-> IdleProc]
    /\ cpu = 0
    /\ edited = FALSE
    /\ prevFailed = {}
    /\ nPasses = 0
    /\ nEdits = 0
    /\ watcher = IdleWatcher

Init == Quiet /\ call = NoCall

Edits ==
    \/ \E path \in Paths, c \in Contents : GitAdd(path, c)
    \/ \E path \in Paths, c \in Contents : GitModify(path, c)
    \/ \E path \in Paths : GitDelete(path)
    \/ \E old_path, new_path \in Paths, c \in Contents :
           GitRename(old_path, new_path, c)
    \/ \E path \in Paths, c \in Contents : WriteUntracked(path, c)

Task(i) ==
    \/ \E full_reindex \in BOOLEAN : StartIndex(i, full_reindex)
    \/ \E fail \in Fails : ProcessDeleted(i, fail)
    \/ \E fail \in Fails : ProcessAdded(i, fail)
    \/ \E fail \in Fails : ProcessFile(i, fail)
    \/ \E fail \in Fails : ProcessModified(i, fail)
    \/ \E fail \in Fails : ProcessRenamed(i, fail)
    \/ \E fail \in Fails : ResumeEmbed(i, fail)
    \/ SaveState(i)
    \/ CrashInSave(i)

\* One index() call at a time.
Next == Edits \/ Task(1)

Spec == Init /\ [][Next]_vars

\* One index() call at a time, and no call of it raises.
NextNoRaise ==
    \/ Edits
    \/ \E full_reindex \in BOOLEAN : StartIndex(1, full_reindex)
    \/ ProcessDeleted(1, "none")
    \/ ProcessAdded(1, "none")
    \/ ProcessFile(1, "none")
    \/ ProcessModified(1, "none")
    \/ ProcessRenamed(1, "none")
    \/ ResumeEmbed(1, "none")
    \/ SaveState(1)

SpecNoRaise == Init /\ [][NextNoRaise]_vars

\* index() may be called again while a call is suspended in
\* _batch_embed: two tasks on one event loop, no call raising, the
\* repository edited by commits of new and of changed files.
NextConcurrent ==
    \/ \E path \in Paths, c \in Contents : GitAdd(path, c)
    \/ \E path \in Paths, c \in Contents : GitModify(path, c)
    \/ \E i \in Procs :
          \/ \E full_reindex \in BOOLEAN : StartIndex(i, full_reindex)
          \/ ProcessAdded(i, "none")
          \/ ProcessFile(i, "none")
          \/ ProcessModified(i, "none")
          \/ ResumeEmbed(i, "none")
          \/ SaveState(i)

SpecConcurrent == Init /\ [][NextConcurrent]_vars

\* The FileWatcher alone: events for the watched paths, the clock, and the
\* debounce task.
NextWatcher ==
    \/ \E file_path \in Watched : on_file_changed(file_path)
    \/ Tick
    \/ process_changes
    \/ ResumeWatcher

SpecWatcher == Init /\ [][NextWatcher]_vars

\* The FileWatcher with the event loop at work: time goes on, a sleep that
\* is over ends, and an embedding awaited returns.
SpecWatcherLive ==
    /\ Init
    /\ [][NextWatcher]_vars
    /\ WF_vars(Tick)
    /\ WF_vars(process_changes)
    /\ WF_vars(ResumeWatcher)

\* One call of assemble() on any of the inputs.
InitAssemble == Quiet /\ call \in AssembleInputs

NextAssemble == Assemble

SpecAssemble == InitAssemble /\ [][NextAssemble]_vars

\* One call of HybridSearchEngine.search.
InitSearch == Quiet /\ call \in SearchInputs

NextSearch == Search

SpecSearch == InitSearch /\ [][NextSearch]_vars

\* One call of MultiLevelSearch._merge_results.
InitMerge == Quiet /\ call \in MergeInputs

NextMerge == Merge

SpecMerge == InitMerge /\ [][NextMerge]_vars

\* One call of HybridSearchEngine.search with filters.
InitFiltered == Quiet /\ call \in FilteredInputs

NextFiltered == SearchFiltered

SpecFiltered == InitFiltered /\ [][NextFiltered]_vars

\* One call of ASTChunker._split_large_function.
InitSplit == Quiet /\ call \in SplitInputs

NextSplit == SplitLargeFunction

SpecSplit == InitSplit /\ [][NextSplit]_vars

\* A file chunked, and chunked again.
InitChunk == Quiet /\ call \in ChunkInputs

NextChunk == ChunkFile \/ ChunkFileAgain

SpecChunk == InitChunk /\ [][NextChunk]_vars

\* One call of IncrementalIndexer._batch_embed.
InitEmbed == Quiet /\ call \in EmbedInputs

NextEmbed ==
    \/ StartBatch
    \/ EmbedderReturns
    \/ EmbedderRaises
    \/ GatherReturns
    \/ BatchEmbedReturns

SpecEmbed == InitEmbed /\ [][NextEmbed]_vars

\* One hit classified by ContextAssembler._determine_priority.
InitPriority == Quiet /\ call \in PriorityInputs

NextPriority == DeterminePriority

SpecPriority == InitPriority /\ [][NextPriority]_vars

\* One call of ExecutionScheduler.execute_graph_sync.
InitSync == Quiet /\ call \in SyncInputs

NextSync ==
    \/ SyncLoop
    \/ SyncBegin
    \/ \E success \in BOOLEAN : SyncEnd(success)

SpecSync == InitSync /\ [][NextSync]_vars

\* The same with the interpreter at work: a step that can be taken is
\* taken.
SpecSyncLive == SpecSync /\ WF_vars(NextSync)

\* One call of ExecutionScheduler.execute_graph_async.
InitAsync == Quiet /\ \E n \in 0..MaxTasks : call \in AsyncInputs(n)

NextAsync ==
    \/ AsyncLoop
    \/ \E success \in BOOLEAN : AsyncParallel(success)
    \/ \E success \in BOOLEAN : AsyncSequential(success)
    \/ AsyncBatchDone

SpecAsync == InitAsync /\ [][NextAsync]_vars

\* One call of QualityGateOrchestrator.run.
InitPipeline == Quiet /\ call \in PipelineInputs

NextPipeline ==
    \/ \E outcome \in GateOutcomes : RunSequential(outcome)
    \/ \E outcome \in GateOutcomes : RunParallel(outcome)
    \/ RunReturns

SpecPipeline == InitPipeline /\ [][NextPipeline]_vars

\* One call of ExecutionScheduler._execute_with_retry.
InitRetry == Quiet /\ call \in RetryInputs

NextRetry == RetryAttempt \/ RetryExhausted

SpecRetry == InitRetry /\ [][NextRetry]_vars

\* ------------------------------------------------------------ properties

\* Task i returned from a pass and the repository was not edited since the
\* pass began.
Finished(i) == procs[i].pc = "done" /\ ~edited

\* The hashes of the supported files git tracks, as the working tree
\* holds them.
TrackedHashes ==
    [p \in {q \in Paths : head[q] # NoFile /\ Supported(q)} |->
        compute_file_hash(p)]

\* The state file records what HEAD held at its commit.
Converged(file) ==
    /\ file.kind = "valid"
    /\ file.indexed_files =
         [p \in {q \in Paths : file.git_commit[q] # NoFile /\ Supported(q)} |->
             Sha256(file.git_commit[p])]

\* C1: after an incremental pass that started from a baseline state equal
\* to its commit's files and recorded no error, the persisted path-to-hash
\* map is exactly the tracked supported files with their current hashes.
\* (Entries of untracked files, which the claim's "tracked" rules out as
\* well, are left aside here: every tracked supported file must be mapped
\* to its current hash and every mapped path must be a file that exists.)
C1_ReconciliationConvergence ==
    \A i \in Procs :
        (/\ Finished(i)
         /\ ~procs[i].full
         /\ procs[i].stats.errors = <<>>
         /\ Converged(procs[i].fileBefore))
        => /\ \A p \in DOMAIN TrackedHashes :
                Get(stateFile.indexed_files, p) = TrackedHashes[p]
           /\ \A p \in DOMAIN stateFile.indexed_files : work[p] # NoFile

\* The type, symbol name and content of the chunk a point stores.
ChunkOf(point) == <<point.id[1], point.id[3], point.id[4]>>

\* The chunks of the file now at `path`.
CurrentChunks(path) ==
    {ChunkOf(x) : x \in PointsOf(chunk_file(work[path]), path)}

\* C2: after a pass (full or incremental) that recorded no error, no point
\* of code_semantic or code_symbols carries a file_path that is absent
\* from IndexState.indexed_files, and every file of the state has its
\* current chunks in code_semantic.
C2_StoreHoldsExactlyTheState ==
    \A i \in Procs :
        (Finished(i) /\ procs[i].stats.errors = <<>>)
        => /\ \A x \in semantic \cup symbols :
                x.file_path \in DOMAIN stateFile.indexed_files
           /\ \A p \in DOMAIN stateFile.indexed_files :
                CurrentChunks(p) \subseteq
                    {ChunkOf(x) : x \in Matching(semantic, p)}

\* C3: in an incremental pass the embedder is not called for a file whose
\* current content hash equals the hash IndexState recorded for it.
C3_NoRedundantWork ==
    \A i \in Procs :
        (~procs[i].full /\ ~edited)
        => \A p \in procs[i].embedded :
              compute_file_hash(p) # Get(procs[i].state.indexed_files, p)

C5_FailedFileIsRetried ==
    \A i \in Procs :
        procs[i].pc = "done" => procs[i].mustRetry \subseteq procs[i].attempted

\* C6: a pass that began with a valid state file and in which the store
\* was unreachable (a store call raised and none returned) leaves the
\* state file as it found it.
C6_StoreDownKeepsTheStateFile ==
    \A i \in Procs :
        (/\ procs[i].pc = "done"
         /\ procs[i].fileBefore.kind = "valid"
         /\ procs[i].store_failed
         /\ ~procs[i].store_ok)
        => stateFile = procs[i].fileBefore

\* C7: two passes never interleave their store writes and state saves:
\* no two tasks are both between their first store write and their save.
C7_PassesDoNotInterleave ==
    \A i, j \in Procs :
        (i # j /\ Running(i) /\ Running(j))
        => ~(procs[i].wrote /\ procs[j].wrote)

\* C8: once the step of a MODIFIED change has ended, with or without an
\* error, code_semantic holds for the path either the points it held
\* before the step or the points of the file's current chunks.
C8_ChunkSetReplacedAtomically ==
    \A i \in Procs :
        (~edited /\ procs[i].last.change.change_type = "M")
        => LET path == procs[i].last.change.path
           IN  Matching(semantic, path) \in
                   {procs[i].last.old_points,
                    PointsOf(chunk_file(work[path]), path)}

\* C9: after the step of a RENAMED change of a file that the state knows
\* and whose content is unchanged, the embedder was not called for it, no
\* point of code_semantic or code_symbols has the old path, every point
\* the file had carries the new path, and the map of the pass has the new
\* path with the hash recorded for the old path and no longer the old
\* path.
C9_RenameMovesTheChunks ==
    \A i \in Procs :
        LET change == procs[i].last.change
            state == procs[i].state
        IN  (/\ ~edited
             /\ change.change_type = "R"
             /\ ~procs[i].last.failed
             /\ change.old_path \in DOMAIN state.indexed_files
             /\ state.git_commit[change.old_path] = head[change.path])
            => /\ change.path \notin procs[i].embedded
               /\ Matching(semantic, change.old_path) = {}
               /\ Matching(symbols, change.old_path) = {}
               /\ Repathed(procs[i].last.old_points, change.path)
                      \subseteq semantic
               /\ change.old_path \notin DOMAIN procs[i].new_indexed_files
               /\ Get(procs[i].new_indexed_files, change.path)
                      = state.indexed_files[change.old_path]

\* C10: when the process died in _save_state, the state file is the one
\* the pass found or the complete new one.
C10_StateFileNeverPartial ==
    \A i \in Procs :
        (~edited /\ procs[i].pc = "crashed")
        => stateFile \in {procs[i].fileBefore, NewState(procs[i])}

\* C11: index(full_reindex=False) calls _load_state and runs a full pass
\* when the state file is missing or does not parse, an incremental pass
\* when it holds a valid state; index(full_reindex=True) runs a full pass
\* and does not call _load_state.  In every case the call goes on into
\* the pass: nothing is raised by the loading.
C11_StateLoadDecidesThePass ==
    \A i \in Procs :
        procs[i].pc # "idle"
        => /\ procs[i].pc \in {"loop", "embed", "save", "done", "crashed"}
           /\ procs[i].full_reindex
                => (procs[i].full /\ ~procs[i].loaded)
           /\ ~procs[i].full_reindex
                => /\ procs[i].loaded
                   /\ procs[i].full <=> (procs[i].fileBefore.kind # "valid")

\* C11, its case: a call with full_reindex=False found a partly written
\* state file and ran a full pass to its end.
C11_Witness ==
    /\ procs[1].pc = "done"
    /\ ~procs[1].full_reindex
    /\ procs[1].fileBefore.kind = "partial"
    /\ procs[1].full
    /\ stateFile.kind = "valid"

\* C12: an event of a path is answered by one re-indexing of the path, not
\* begun before debounce_ms has passed since the last event of its burst:
\* once the watcher has no task asleep or running, no path is left with an
\* event and no re-indexing after it; no path was re-indexed more often
\* than it had bursts; and no re-indexing began early.
C12_BurstReindexedOnce ==
    /\ ~watcher.early
    /\ \A p \in Paths : watcher.reindexed[p] <= watcher.bursts[p]
    /\ watcher.task.pc \in {"none", "done"} => watcher.stale = {}

\* The sum of token_count over a list of chunks.
RECURSIVE SumTokens(_)
SumTokens(chunks) ==
    IF chunks = <<>>
    THEN 0
    ELSE Head(chunks).token_count + SumTokens(Tail(chunks))

Returned == call.op = "assemble"

Available == call.max_tokens - call.reserve_tokens

\* C13 as stated: the token counts of the chunks returned by assemble()
\* sum to at most max_tokens - reserve_tokens, whatever the hits and the
\* configuration.
C13_BudgetLawAnyConfiguration ==
    Returned => SumTokens(call.context.chunks) <= Available

\* C13 as amended: with reserve_tokens <= max_tokens the token counts of
\* the returned chunks sum to at most max_tokens - reserve_tokens (and to
\* total_tokens); with reserve_tokens > max_tokens no chunk is returned.
C13_BudgetLaw ==
    Returned
    => /\ SumTokens(call.context.chunks) = call.context.total_tokens
       /\ Available >= 0 => SumTokens(call.context.chunks) <= Available
       /\ Available < 0 => call.context.chunks = <<>>

\* C13, its case: three hits were packed, one of them truncated, and the
\* budget of 900 tokens is used to the last token.
C13_Witness ==
    /\ Returned
    /\ Len(call.context.chunks) = 3
    /\ call.context.truncated_chunks = 1
    /\ Available = 900
    /\ SumTokens(call.context.chunks) = 900

\* The chunks a log of _apply_budget says were selected, in order.
RECURSIVE Packed(_)
Packed(log) ==
    IF log = <<>>
    THEN <<>>
    ELSE LET e == log[Len(log)]
             before == Packed(SubSeq(log, 1, Len(log) - 1))
         IN  IF e.outcome = "whole" THEN Append(before, e.chunk)
             ELSE IF e.outcome = "truncated"
             THEN Append(before, [e.chunk EXCEPT
                                     !.token_count = e.remaining,
                                     !.content.marker = TRUE,
                                     !.content.tokens =
                                         e.remaining - MarkerReserve])
             ELSE before

\* Three hits of 400 tokens each, in descending effective score, no two
\* of which overlap.
ThreeOf400 ==
    /\ Len(call.search_results) = 3
    /\ \A k \in 1..3 : call.search_results[k].content.tokens = 400
    /\ \A k \in 1..2 :
          effective_score(ContextChunk(call.search_results[k], call.query))
            >= effective_score(ContextChunk(call.search_results[k + 1],
                                            call.query))
    /\ \A j, k \in 1..3 :
          j # k => ~chunks_overlap(call.search_results[j],
                                   call.search_results[k])

\* C14: the chunks are taken in descending score; each one met, while
\* budget remains, with a remaining budget of max_tokens - reserve_tokens
\* less the tokens selected so far is selected whole when its token_count
\* is at most the remaining budget; otherwise it is selected cut to the
\* remaining budget and counted in truncated_chunks when the remaining
\* budget is above 100, and left out when it is not.  With max_tokens =
\* 1000, reserve_tokens = 100 and three hits of 400 tokens the first two
\* are selected (800 tokens), the third is dropped, truncated_chunks = 0.
C14_BudgetPackingRule ==
    Returned
    => LET ctx == call.context
       IN  /\ ctx.selected = Packed(ctx.log)
           /\ [k \in 1..Len(ctx.log) |-> ctx.log[k].chunk] = ctx.sorted
           /\ \A k \in 1..Len(ctx.log) :
                LET e == ctx.log[k]
                IN  /\ e.remaining = Available
                         - SumTokens(Packed(SubSeq(ctx.log, 1, k - 1)))
                    /\ e.remaining > 0
                       => /\ e.chunk.token_count <= e.remaining
                               => e.outcome = "whole"
                          /\ e.chunk.token_count > e.remaining
                               => e.outcome = IF e.remaining > 100
                                              THEN "truncated"
                                              ELSE "left out"
           /\ ctx.truncated_chunks =
                Cardinality({k \in 1..Len(ctx.log) :
                                ctx.log[k].outcome = "truncated"})
           /\ (ThreeOf400 /\ call.max_tokens = 1000
                          /\ call.reserve_tokens = 100)
              => /\ ctx.selected =
                        SubSeq(create_chunks(call.search_results,
                                             call.query), 1, 2)
                 /\ ctx.total_tokens = 800
                 /\ Len(ctx.chunks) = 2
                 /\ ctx.truncated_chunks = 0

\* C14, its case: max_tokens = 1000, reserve_tokens = 100 and three hits
\* of 400 tokens in descending score; two are returned.
C14_Witness ==
    /\ Returned
    /\ ThreeOf400
    /\ call.max_tokens = 1000
    /\ call.reserve_tokens = 100
    /\ Len(call.context.chunks) = 2
    /\ call.context.log[3].outcome = "left out"

\* C15: a chunk that comes, in descending score, when the tokens used
\* have reached max_tokens - reserve_tokens is dropped, neither selected
\* whole nor truncated: the selected chunks before the last one sum to
\* less than the budget, and what was selected is what was selected
\* before the budget was reached.
C15_NothingAfterExhaustion ==
    Returned
    => LET ctx == call.context
       IN  /\ \A k \in 1..Len(ctx.log) :
                ctx.log[k].remaining <= 0 => ctx.log[k].outcome = "break"
           /\ \A j \in 1..(Len(ctx.selected) - 1) :
                SumTokens(SubSeq(ctx.selected, 1, j)) < Available
           /\ ctx.selected =
                Packed(SelectSeq(ctx.log, LAMBDA e : e.remaining > 0))

\* C15, its case: the budget was used up and a later chunk of no tokens,
\* which would still fit, was dropped.
C15_Witness ==
    /\ Returned
    /\ Available > 0
    /\ call.context.total_tokens = Available
    /\ \E k \in 1..Len(call.context.log) :
          /\ call.context.log[k].outcome = "break"
          /\ call.context.log[k].chunk.token_count = 0

\* C17: no two chunks returned by assemble() are of the same file with
\* overlapping line ranges.
C17_AssemblyDedupLaw ==
    Returned
    => \A j, k \in 1..Len(call.context.chunks) :
          j # k => ~chunks_overlap(call.context.chunks[j],
                                   call.context.chunks[k])

\* The rearrangements of a list.
Rearranged(seq) ==
    {[k \in 1..Len(seq) |-> seq[p[k]]] : p \in Permutations(1..Len(seq))}

\* (file_path, symbol_name) of a comes before that of b, or is the same.
NameOrdered(a, b) ==
    \/ PathRank(a.file_path) < PathRank(b.file_path)
    \/ /\ a.file_path = b.file_path
       /\ NameRank(a.symbol_name) <= NameRank(b.symbol_name)

\* No two chunks of the list have the same key in a sort that places them:
\* the effective score, and (file_path, symbol_name) among definitions.
DistinctKeys(chunks) ==
    \A j, k \in 1..Len(chunks) :
        j # k
        => /\ effective_score(chunks[j]) # effective_score(chunks[k])
           /\ chunks[j].is_definition /\ chunks[k].is_definition
              => <<chunks[j].file_path, chunks[j].symbol_name>>
                    # <<chunks[k].file_path, chunks[k].symbol_name>>

\* C18: in the chunks returned by assemble() every definition precedes
\* every non-definition, the definitions ascend in (file path, symbol
\* name), the non-definitions do not increase in effective score; the
\* selected chunks in any other order are put in the same order, and hits
\* of distinct keys given in any other order yield the same chunks.
C18_FinalOrdering ==
    Returned
    => LET out == call.context.chunks
       IN  /\ \A j, k \in 1..Len(out) :
                j < k
                => /\ out[k].is_definition => out[j].is_definition
                   /\ out[j].is_definition /\ out[k].is_definition
                      => NameOrdered(out[j], out[k])
                   /\ ~out[j].is_definition /\ ~out[k].is_definition
                      => effective_score(out[j]) >= effective_score(out[k])
           /\ Len(out) = Len(call.context.selected)
           /\ DistinctKeys(call.context.selected)
              => \A p \in Rearranged(call.context.selected) :
                    order_for_prompt(p) = out
           /\ DistinctKeys(create_chunks(call.search_results, call.query))
              => \A h \in Rearranged(call.search_results) :
                    assemble(h, call.query, call.max_tokens,
                             call.reserve_tokens).chunks = out

\* C18, its case: three chunks were returned, a definition first that had
\* the least effective score but one, then two non-definitions that the
\* hits named in ascending effective score.
C18_Witness ==
    /\ Returned
    /\ Len(call.context.chunks) = 3
    /\ DistinctKeys(create_chunks(call.search_results, call.query))
    /\ call.context.chunks[1].is_definition
    /\ ~call.context.chunks[2].is_definition
    /\ ~call.context.chunks[3].is_definition
    /\ call.context.selected[2] = call.context.chunks[1]
    /\ create_chunks(call.search_results, call.query)
           = <<call.context.chunks[3], call.context.chunks[2],
               call.context.chunks[1]>>

\* search() has returned a list.
Found == call.op = "search" /\ call.result.outcome = "returned"

\* C16: in every list search() returns for a query with deduplicate, in
\* whatever mode, no two results of the same file have overlapping line
\* ranges.
C16_SearchDedupLaw ==
    Found /\ call.query.deduplicate
    => \A j, k \in 1..Len(call.result.results) :
          j # k
          => LET a == call.result.results[j]
                 b == call.result.results[k]
             IN  \/ a.file_path # b.file_path
                 \/ a.end_line < b.start_line
                 \/ a.start_line > b.end_line

\* C16, its case: the store answered with three points of one file of
\* which the third overlaps the first and not the second; the first two
\* were returned and the third was not.
C16_Witness ==
    /\ Found
    /\ call.query.deduplicate
    /\ Len(call.result.reranked) = 3
    /\ overlaps_with(call.result.reranked[3], call.result.reranked[1])
    /\ ~overlaps_with(call.result.reranked[3], call.result.reranked[2])
    /\ ~overlaps_with(call.result.reranked[2], call.result.reranked[1])
    /\ call.result.reranked[3].score >= call.query.min_score
    /\ call.result.results = SubSeq(call.result.reranked, 1, 2)

\* C20: a search in keyword mode on an engine without sparse_embed does
\* not fail: it returns what the semantic search returns for the same
\* query, and a warning is recorded.
C20_KeywordFallsBackToSemantic ==
    /\ call.op = "search"
    /\ call.query.mode = "keyword"
    /\ ~call.engine.sparse_embed
    => /\ call.result.outcome = "returned"
       /\ call.result.warnings # <<>>
       /\ \E response \in
                Answers(store_request(call.engine,
                           [call.query EXCEPT !.mode = "semantic"])) :
             \E new_scores \in [1..Len(response) -> RerankScores] :
                call.result.results =
                    search(call.engine,
                           [call.query EXCEPT !.mode = "semantic"],
                           response, new_scores).results

\* The places (counted from 1) at which a ranking holds the document.
PlacesOf(ranking, result) ==
    {j \in 1..Len(ranking) : merge_key(ranking[j]) = merge_key(result)}

\* The sum of 1 / (60 + rank), rank counted from 1, over the given
\* places.
RECURSIVE ReciprocalRanks(_)
ReciprocalRanks(places) ==
    IF places = {}
    THEN <<0, 1>>
    ELSE LET j == CHOOSE x \in places : TRUE
         IN  FracAdd(<<1, 60 + j>>, ReciprocalRanks(places \ {j}))

\* The fused result of the document of the given name.
Fused(name) ==
    CHOOSE r \in Range(call.results) : r.file_path = name

\* C19: every fused result is scored with the sum, over the rankings that
\* hold it, of 1/(60 + rank), rank counted from 1; for the rankings
\* [B,A,C,D,E] and [A,B,E,F,G] the score of A is 1/61 + 1/62, it exceeds
\* the score of every document of one ranking only, and the first two
\* fused results are A and B.
C19_FusionCorrectness ==
    call.op = "merge"
    => /\ \A j \in 1..Len(call.results) :
            FracEq(call.results[j].score,
                   FracAdd(ReciprocalRanks(PlacesOf(call.symbols,
                                                    call.results[j])),
                           ReciprocalRanks(PlacesOf(call.semantic,
                                                    call.results[j]))))
       /\ {call.symbols, call.semantic} = {DenseRanking, SparseRanking}
          => /\ FracEq(Fused("A").score, FracAdd(<<1, 61>>, <<1, 62>>))
             /\ \A r \in Range(call.results) :
                   r.file_path \in {"C", "D", "F", "G"}
                   => FracLess(r.score, Fused("A").score)
             /\ <<call.results[1].file_path, call.results[2].file_path>>
                   = <<"A", "B">>

\* The point of the store's answer a returned hit was made of.
PointOfHit(hit) ==
    CHOOSE point \in Range(call.response) : point.id = hit.id

\* The search with filters has returned a list.
FoundFiltered ==
    call.op = "filtered search" /\ call.result.outcome = "returned"

\* C21: in every mode and for every combination of filters the request
\* to the store carries the allow-lists of file paths, languages and
\* chunk kinds and the excluded paths, no returned hit is of an excluded
\* path and every returned hit is in each allow-list that was given.
C21_FiltersInEveryMode ==
    FoundFiltered
    => LET q == call.query
           f == call.request.filter
           carries(key, allowed) ==
               allowed # {}
               => \E j \in 1..Len(f.must) :
                     f.must[j] = FieldCondition(key, allowed)
       IN  /\ carries("file_path", q.file_paths)
           /\ carries("language", q.languages)
           /\ carries("chunk_type", q.symbol_types)
           /\ \A path \in q.exclude_paths :
                 \E j \in 1..Len(f.must_not) :
                    f.must_not[j] = FieldCondition("file_path", {path})
           /\ \A j \in 1..Len(call.result.results) :
                 LET hit == call.result.results[j]
                     payload == PointOfHit(hit).payload
                 IN  /\ hit.file_path \notin q.exclude_paths
                     /\ q.file_paths # {} => hit.file_path \in q.file_paths
                     /\ q.languages # {} => payload.language \in q.languages
                     /\ q.symbol_types # {}
                        => payload.chunk_type \in q.symbol_types

\* The Block chunks of the split, in the order of their emission.
Blocks == SelectSeq(call.chunks, LAMBDA c : c.chunk_type = "block")

\* The lines of a Block after the line that names the function.
BlockLines(j) == Tail(Blocks[j].content)

\* The lines a Block adds to those of the Blocks before it.
NewLines(j) ==
    IF j = 1
    THEN BlockLines(1)
    ELSE SubSeq(BlockLines(j), Len(Overlap(BlockLines(j - 1))) + 1,
                Len(BlockLines(j)))

RECURSIVE AllNewLines(_)
AllNewLines(j) == IF j = 0 THEN <<>> ELSE AllNewLines(j - 1) \o NewLines(j)

\* C27: the lines after the header of a split function are, in their
\* order, the lines of the Blocks; every Block after the first begins
\* with the last min(3, n) lines of the Block of n lines before it;
\* every Block has the function as parent_symbol and is named
\* <function>_block_<k>, k counting the Blocks from 0; lines gathered and
\* not yet emitted when the body ends make the last Block.
C27_OversizedFunctionSplit ==
    call.op = "split"
    => LET body == SubSeq(call.lines, call.scan.body_start_idx + 1,
                          Len(call.lines))
       IN  /\ AllNewLines(Len(Blocks)) = body
           /\ \A j \in 2..Len(Blocks) :
                 LET n == Len(BlockLines(j - 1))
                     m == IF n < 3 THEN n ELSE 3
                 IN  /\ Len(BlockLines(j)) > m
                     /\ SubSeq(BlockLines(j), 1, m)
                           = SubSeq(BlockLines(j - 1), n - m + 1, n)
           /\ \A j \in 1..Len(Blocks) :
                 /\ Blocks[j].parent_symbol = "f"
                 /\ Blocks[j].symbol_name = <<"f", "_block_", j - 1>>
                 /\ Blocks[j].content[1] = PartOf("f")
           /\ body # <<>>
              => /\ Blocks # <<>>
                 /\ call.chunks[Len(call.chunks)] = Blocks[Len(Blocks)]
                 /\ body[Len(body)]
                       = BlockLines(Len(Blocks))[Len(BlockLines(Len(Blocks)))]

\* C27, its case: a function with a docstring was split into three
\* Blocks or more, one of fewer and one of more than three lines among
\* those that another Block follows.
C27_Witness ==
    /\ call.op = "split"
    /\ Len(Blocks) >= 3
    /\ call.scan.body_start_idx > 1
    /\ \E j \in 1..(Len(Blocks) - 1) : Len(BlockLines(j)) > 3
    /\ \E j \in 1..(Len(Blocks) - 1) : Len(BlockLines(j)) < 3

\* What of a chunk the claim of idempotence names.
Identity(chunk) ==
    [id |-> chunk.id, chunk_type |-> chunk.chunk_type,
     start_line |-> chunk.start_line, end_line |-> chunk.end_line,
     symbol_name |-> chunk.symbol_name, content |-> chunk.content]

\* C22: chunk_file called twice for a path whose content is the same
\* returns the same chunks in the same order, with the same ids, kinds
\* and line spans; chunks of the same kind, path, symbol name and content
\* have the same id.
C22_ChunkingIdempotent ==
    call.op = "chunked again"
    => /\ Len(call.again) = Len(call.chunks)
       /\ \A j \in 1..Len(call.chunks) :
             Identity(call.again[j]) = Identity(call.chunks[j])
       /\ \A c \in Range(call.chunks), d \in Range(call.again) :
             /\ c.chunk_type = d.chunk_type
             /\ c.file_path = d.file_path
             /\ c.symbol_name = d.symbol_name
             /\ c.content = d.content
             => c.id = d.id

\* C22, its case: the file was chunked twice, the two calls listed the
\* calls of a function in different orders, and it has a class split
\* into methods and a function split into blocks.
C22_Witness ==
    /\ call.op = "chunked again"
    /\ call.again # call.chunks
    /\ \E c \in Range(call.chunks) : c.chunk_type = "function" /\ Len(c.calls) = 2
    /\ \E c \in Range(call.chunks) : c.chunk_type = "method"

\* chunk_file has returned.
Chunked == call.op \in {"chunked", "chunked again"}

\* The places of the chunks of a kind that lie within the lines of a
\* node.
ChunksWithin(node, chunk_type) ==
    {j \in 1..Len(call.chunks) :
        /\ call.chunks[j].chunk_type = chunk_type
        /\ call.chunks[j].start_line >= node.first
        /\ call.chunks[j].end_line <= node.last}

\* The chunks of a kind.
ChunksOfKind(chunk_type) ==
    {j \in 1..Len(call.chunks) : call.chunks[j].chunk_type = chunk_type}

FinalBlocks ==
    {j \in ChunksOfKind("block") :
        \A m \in ChunksOfKind("block") :
            call.chunks[m].parent_symbol = call.chunks[j].parent_symbol
            => m <= j}

\* The tokens a Block may hold beyond the bound: those of the line that
\* names its function and of the lines it repeats.
OverlapSlack(chunk) ==
    IF chunk.chunk_type = "block"
    THEN estimate_tokens(SubSeq(chunk.content, 1,
                                IF Len(chunk.content) < 1 + OVERLAP_LINES
                                THEN Len(chunk.content)
                                ELSE 1 + OVERLAP_LINES)) + 1
    ELSE 0

\* C23: every chunk of chunk_file but the last Block of a split function
\* is estimated at no more than 512 tokens and the tokens of its
\* overlap.
C23_SizeBound ==
    Chunked
    => \A j \in 1..Len(call.chunks) :
          j \notin FinalBlocks
          => call.chunks[j].tokens_estimate
                <= MAX_CHUNK_TOKENS + OverlapSlack(call.chunks[j])

\* _batch_embed is running or has ended.
Embedding == call.op \in {"embed", "gather", "raised", "returned"}

\* C25: while _batch_embed runs, at most batch_size calls of the embedder
\* are in flight; the calls in flight are of the current batch and every
\* call of the batches before it has completed; the list returned has
\* the embedding of every text, in the order of the texts.
C25_BoundedEmbedding ==
    Embedding
    => /\ Cardinality(call.in_flight) <= call.batch_size
       /\ \A k \in call.in_flight :
             k > call.i /\ k <= call.i + call.batch_size
       /\ call.op \in {"embed", "gather"}
          => \A k \in 1..Len(call.texts) : k <= call.i => k \in call.completed
       /\ call.op = "returned"
          => /\ Len(call.embeddings) = Len(call.texts)
             /\ \A k \in 1..Len(call.texts) :
                   call.embeddings[k] = embedder(call.texts[k])

\* C25, its case: more than two batches of texts that differ were
\* embedded, and the calls of the last batch completed out of order.
C25_Witness ==
    /\ call.op = "returned"
    /\ Len(call.texts) >= 2 * call.batch_size
    /\ call.batch_size > 1
    /\ \E j \in 1..(Len(call.order) - 1) :
          /\ call.order[j] > call.order[j + 1]
          /\ call.texts[call.order[j]] # call.texts[call.order[j + 1]]

\* The symbol name of the hit is not empty and is found in the query,
\* letters of either case taken as equal.
NameInQuery ==
    LET name == call.result.symbol_name
        query == call.query
    IN  /\ Len(name) > 0
        /\ \E offset \in 0..(Len(query) - Len(name)) :
              \A j \in 1..Len(name) :
                 \/ name[j] = query[offset + j]
                 \/ {name[j], query[offset + j]} \in {{"f", "F"}, {"o", "O"}}

IsDefinition == call.result.chunk_type \in {"function", "class", "method"}

\* C26: a hit is CRITICAL when its symbol name is not empty and occurs in
\* the query whatever the case; else HIGH when it is a function, class or
\* method or scores above 0.8; else MEDIUM when it scores above 0.6; else
\* LOW; its effective score is the score times 1.0, 0.8, 0.6 or 0.4; a
\* hit is never BACKGROUND.
C26_PriorityClassification ==
    call.op = "classified"
    => /\ call.priority = CRITICAL <=> NameInQuery
       /\ call.priority = HIGH
             <=> ~NameInQuery /\ (IsDefinition \/ call.result.score > 80)
       /\ call.priority = MEDIUM
             <=> /\ ~NameInQuery /\ ~IsDefinition
                 /\ call.result.score > 60 /\ call.result.score <= 80
       /\ call.priority = LOW
             <=> ~NameInQuery /\ ~IsDefinition /\ call.result.score <= 60
       /\ call.priority # BACKGROUND
       /\ call.priority \in {10, 8, 6, 4}
       /\ call.effective_score = call.result.score * call.priority

\* C26, its case: a hit that is no definition and scores 0.5 was made
\* CRITICAL by a name written in another case than in the query.
C26_Witness ==
    /\ call.op = "classified"
    /\ call.priority = CRITICAL
    /\ call.result.chunk_type = "block"
    /\ call.result.score = 50
    /\ call.result.symbol_name = <<"f", "O">>
    /\ call.query = <<"x", "F", "o">>

\* C28: in the result of assemble(), every hit that was included, whole
\* or truncated, has an effective score no less than that of every hit
\* that was left out for want of budget.
C28_GreedyRespectsScoreOrder ==
    Returned
    => \A j, k \in 1..Len(call.context.log) :
          /\ call.context.log[j].outcome \in {"whole", "truncated"}
          /\ call.context.log[k].outcome \in {"left out", "break"}
          => effective_score(call.context.log[j].chunk)
                >= effective_score(call.context.log[k].chunk)

\* C29: no event of the FileWatcher is lost: once the events have stopped,
\* every path that on_file_changed was called for is re-indexed after its
\* last event, unless the watcher is for ever asleep before its wake-up
\* time.
C29_NoEventLost ==
    \A p \in Watched :
        \/ <>[](p \notin watcher.stale)
        \/ <>[](watcher.task.pc = "sleep")

\* C30: whenever a state is persisted and no pass is running, its
\* total_files is the number of entries of indexed_files and its
\* total_chunks is the number of points in the chunk collection.
C30_CountersTruthful ==
    /\ stateFile.kind = "valid"
    /\ \A i \in Procs : ~Running(i)
    => /\ stateFile.total_files = Cardinality(DOMAIN stateFile.indexed_files)
       /\ stateFile.total_chunks = Cardinality(semantic)

\* C31: the ids of the chunks chunk_file returns for a file are pairwise
\* distinct, so that the points upserted for them, one per id, are as many
\* as the chunks counted.
C31_ChunkIdsDistinct ==
    Chunked
    => /\ \A j, k \in 1..Len(call.chunks) :
             j # k => call.chunks[j].id # call.chunks[k].id
       /\ Cardinality({call.chunks[j].id : j \in 1..Len(call.chunks)})
             = Len(call.chunks)

\* The places of the events of a kind for a task.
EventsOf(kind, id) ==
    {k \in 1..Len(call.events) : call.events[k] = <<kind, id>>}

\* A graph run is under way or has returned.
GraphRun == call.op \in {"loop", "batch", "running", "returned"}

\* C32: in execute_graph_sync a task is started only after every task of
\* its depends_on has finished in the same run, whatever its outcome, and
\* no task is executed more than once.
C32_DependencyOrder ==
    GraphRun
    => \A k \in 1..Len(call.events) :
          call.events[k][1] = "start"
          => LET task == TaskOf(call.graph, call.events[k][2])
             IN  /\ \A dep \in task.depends_on :
                       \E m \in EventsOf("end", dep) : m < k
                 /\ EventsOf("start", task.id) = {k}

\* C32, its case: task c, which depends on a and b, was executed after b
\* had failed.
C32_Witness ==
    /\ call.op = "returned"
    /\ Len(call.graph) = 3
    /\ call.graph[3].depends_on = {"a", "b"}
    /\ call.graph[2].depends_on = {"a"}
    /\ call.graph[2].status = "failed"
    /\ EventsOf("start", "c") # {}

\* The ids of the tasks of the graph, and those executed in the run.
AllTasks == {call.graph[j].id : j \in 1..Len(call.graph)}

Executed == {id \in AllTasks : EventsOf("start", id) # {}}

\* Every dependency is a task of the graph and the dependencies form no
\* cycle: the tasks can be ranked with every task above its dependencies.
Resolvable ==
    \E rank \in [AllTasks -> 1..Len(call.graph)] :
        \A j \in 1..Len(call.graph) :
            \A dep \in call.graph[j].depends_on :
                dep \in AllTasks /\ rank[dep] < rank[call.graph[j].id]

\* C33: execute_graph_sync returns for every task graph, with cycles or
\* unknown dependencies or not; when it returns, no task that was not
\* executed has all its dependencies completed, the results are those of
\* the tasks executed, and every task was executed if the dependencies
\* are known tasks and form no cycle.
C33_SyncTerminates ==
    /\ <>(call.op = "returned")
    /\ [](call.op = "returned"
          => /\ \A id \in AllTasks \ Executed :
                   ~(TaskOf(call.graph, id).depends_on \subseteq Executed)
             /\ DOMAIN call.results = Executed
             /\ \A id \in Executed : call.results[id].task_id = id
             /\ \A id \in Executed : EventsOf("end", id) # {}
             /\ Resolvable => Executed = AllTasks)

\* C33, its case: the run returned for a graph in which a and b depend on
\* each other, having executed c only.
C33_Witness ==
    /\ call.op = "returned"
    /\ Len(call.graph) = 3
    /\ "b" \in call.graph[1].depends_on
    /\ "a" \in call.graph[2].depends_on
    /\ Executed = {"c"}
    /\ ~Resolvable

\* _execute_with_retry is running or has returned.
Retrying ==
    call.op \in {"retry", "returned"} /\ "max_retries" \in DOMAIN call

\* C35: _execute_with_retry makes at most max_retries attempts; a success
\* is returned at once, as the result of the first attempt that
\* succeeded; a failed result is returned after exactly max_retries
\* attempts, all of them failed.
C35_RetryBound ==
    Retrying
    => /\ Len(call.attempts) <= call.max_retries
       /\ \A k \in 1..(Len(call.attempts) - 1) :
             call.attempts[k].outcome # "ok"
       /\ call.op = "retry"
          => \A k \in 1..Len(call.attempts) : call.attempts[k].outcome # "ok"
       /\ call.op = "returned" /\ call.result.success
          => /\ call.attempts # <<>>
             /\ call.attempts[Len(call.attempts)].outcome = "ok"
             /\ call.result.model_used
                   = call.attempts[Len(call.attempts)].model
             /\ call.result.agent_used
                   = call.attempts[Len(call.attempts)].agent
       /\ call.op = "returned" /\ ~call.result.success
          => /\ Len(call.attempts) = call.max_retries
             /\ \A k \in 1..Len(call.attempts) :
                   call.attempts[k].outcome # "ok"

\* C35, its case: with max_retries = 3 the second attempt succeeded and
\* was returned.
C35_Witness ==
    /\ Retrying
    /\ call.op = "returned"
    /\ call.max_retries = DefaultMaxRetries
    /\ call.result.success
    /\ Len(call.attempts) = 2

\* C36: when _execute_with_retry with max_retries = 3 returns a failed
\* result, an attempt was made with the fallback model, if the router
\* knows it, and an attempt was made with the retry agent.
C36_RetryEscalation ==
    /\ Retrying
    /\ call.op = "returned"
    /\ ~call.result.success
    /\ call.max_retries = DefaultMaxRetries
    => /\ call.fallback_known
          => \E k \in 1..Len(call.attempts) :
                call.attempts[k].model = "fallback"
       /\ \E k \in 1..Len(call.attempts) :
             call.attempts[k].agent
                = get_agent_for_retry(call.agent,
                                      call.last_error = "error text")

\* execute_graph_async is running or has returned.
AsyncRun == "max_parallel" \in DOMAIN call

\* C34: execute_graph_async executes no task more than once, takes at
\* most max_parallel tasks into a batch, and when it has returned for a
\* graph whose dependencies are known tasks and form no cycle, every task
\* was executed, in PARALLEL and in SEQUENTIAL mode.
C34_AsyncExactlyOnce ==
    AsyncRun
    => /\ \A id \in AllTasks : Cardinality(EventsOf("start", id)) <= 1
       /\ Len(call.batch) <= call.max_parallel
       /\ call.op = "returned" /\ Resolvable => Executed = AllTasks

\* C37: a task that was not executed is PENDING with neither result nor
\* error; when the graph run has returned, every executed task is
\* COMPLETED if its execution result succeeded and FAILED if not, with
\* the result set on success only and the error that of the result.
C37_StatusLifecycle ==
    AsyncRun
    => /\ \A id \in AllTasks \ Executed :
             LET task == TaskOf(call.graph, id)
             IN  task.status = "pending" /\ task.result = "none"
                 /\ task.error = "none"
       /\ call.op = "returned"
          => \A id \in Executed :
                LET task == TaskOf(call.graph, id)
                    result == call.results[id]
                IN  /\ task.status
                          = IF result.success THEN "completed" ELSE "failed"
                    /\ (task.result # "none") = result.success
                    /\ task.error = result.error

\* QualityGateOrchestrator.run is running or has returned.
PipelineRun == "fail_fast" \in DOMAIN call

\* The keys of the gates _run_gate was called for, in the order of the
\* calls, and the order asked for.
RanNames == [k \in 1..Len(call.ran) |-> call.ran[k].name]

GateOrder ==
    IF call.requested = <<>> THEN DEFAULT_GATE_ORDER ELSE call.requested

\* The calls of _run_gate of a returned run that ended in a blocking
\* failure or raised.
StopsOfRun ==
    {k \in 1..Len(call.ran) :
        \/ Escapes(call.ran[k].outcome)
        \/ /\ ~call.result.gate_results[k].passed
           /\ call.result.gate_results[k].blocking}

\* C38 as stated: with fail_fast the gates asked for are run in their
\* order, none after the first whose result is a blocking failure or whose
\* check raised; stopped_at_gate names that gate and is None exactly when
\* every gate asked for was run.
C38_FailFastAsStated ==
    PipelineRun /\ call.fail_fast /\ call.op = "returned"
    => LET results == call.result.gate_results
           Stops == {k \in 1..Len(call.ran) :
                        \/ call.ran[k].outcome = "check raises"
                        \/ ~results[k].passed /\ results[k].blocking}
       IN  /\ Len(call.ran) <= Len(GateOrder)
           /\ RanNames = SubSeq(GateOrder, 1, Len(call.ran))
           /\ Stops # {}
              => /\ Stops = {Len(call.ran)}
                 /\ call.result.stopped_at_gate = RanNames[Len(call.ran)]
           /\ call.result.stopped_at_gate = "none" <=> RanNames = GateOrder

\* C38: with fail_fast the registered gates among those asked for are run
\* in their order, none after the first whose result is a blocking
\* failure or whose _run_gate raised; a check that raised is a failure
\* with the blocking of its gate; stopped_at_gate names the gate the run
\* stopped at, and it is None exactly when no gate ended that way, and
\* then every registered gate asked for was run.
C38_FailFast ==
    PipelineRun /\ call.fail_fast /\ call.op = "returned"
    => LET results == call.result.gate_results
       IN  /\ Len(results) = Len(call.ran)
           /\ Len(call.ran) <= Len(call.active)
           /\ RanNames = SubSeq(call.active, 1, Len(call.ran))
           /\ \A k \in 1..Len(call.ran) :
                 call.ran[k].outcome = "check raises"
                 => /\ ~results[k].passed
                    /\ results[k].blocking = call.gates[call.ran[k].name]
           /\ StopsOfRun # {}
              => /\ StopsOfRun = {Len(call.ran)}
                 /\ call.result.stopped_at_gate = RanNames[Len(call.ran)]
           /\ StopsOfRun = {}
              => /\ call.result.stopped_at_gate = "none"
                 /\ RanNames = call.active

\* C38, its case: the check of the non-blocking coverage gate raised, the
\* run went on to the blocking linter, which failed, and stopped there
\* with a gate left.
C38_Witness ==
    /\ PipelineRun /\ call.fail_fast /\ call.op = "returned"
    /\ Len(call.active) = 3
    /\ Len(call.ran) = 2
    /\ call.ran[1] = [name |-> "coverage", outcome |-> "check raises"]
    /\ ~call.gates["coverage"]
    /\ call.ran[2] = [name |-> "linter", outcome |-> "failed"]
    /\ call.result.stopped_at_gate = "linter"
    /\ ~call.result.passed

\* C39: the pipeline passed iff no gate result is failed and blocking;
\* total_gates is the number of gates run and the sum of passed_gates and
\* failed_gates; a gate that is not blocking and failed neither stops the
\* run nor makes the pipeline fail.
C39_PipelineVerdict ==
    PipelineRun /\ call.op = "returned"
    => LET pipeline == call.result
           results == pipeline.gate_results
       IN  /\ pipeline.passed <=> blocking_failures(pipeline) = <<>>
           /\ Len(blocking_failures(pipeline)) + Len(warnings(pipeline))
                 = pipeline.failed_gates
           /\ pipeline.total_gates = Len(call.ran)
           /\ pipeline.total_gates
                 = pipeline.passed_gates + pipeline.failed_gates
           /\ \A k \in 1..Len(call.ran) :
                 ~call.gates[call.ran[k].name] /\ ~results[k].passed
                 => /\ k < Len(call.ran) \/ k = Len(call.active)
                    /\ \/ pipeline.passed
                       \/ \E j \in 1..Len(call.ran) :
                             /\ call.gates[call.ran[j].name]
                             /\ ~results[j].passed

============================================================================
